---- MODULE Spec2Model ----
(***************************************************************************)
(* State-machine model of the GReX-T0 pipeline stages:                     *)
(*   - ReorderBuf and reorder_task            (src/src/processing.rs)      *)
(*   - downsample_task                        (src/src/processing.rs)      *)
(*   - DumpRing (next_push, dump)             (src/src/dumps.rs)           *)
(*   - Channel::abs_squared, stokes_i         (src/src/common.rs)          *)
(* Each stage has its own specification over the shared variables; the     *)
(* variables of the stages a specification does not run stay unchanged.    *)
(***************************************************************************)
EXTENDS Integers, Sequences, FiniteSets, TLC

\* ------------------------------------------------------------------ bounds
\* Number of slots of the reorder buffer (16_384 in processing.rs:12, scaled).
PACKET_REODER_BUF_SIZE == 3
\* Packet counts fed to the ordering stage are drawn from 0..MaxCount.
MaxCount == 4
\* Number of packets fed to the ordering stage.
MaxArrivals == 6
\* Number of frequency channels (2048 in common.rs:9, scaled).
CHANNELS == 2
\* Payloads pushed into the ReorderBuf by the unit test's harness.
MaxTestPushes == 4
\* DumpRing::new is called with size_power in 0..MaxVbufPower.
MaxVbufPower == 2
\* Number of payloads pushed into the DumpRing.
MaxRingPushes == 6
\* Voltage samples of the payloads fed to the ring and the downsampler are
\* drawn from 0..MaxSample.
MaxSample == 1
\* downsample_task runs with downsample_factor 2^d, d in 0..MaxDownsamplePower.
MaxDownsamplePower == 1
\* Number of payloads fed to downsample_task.
MaxDownInputs == 5
\* Monitor averaging length (305_180 in processing.rs:10, scaled).
MONITOR_SPEC_DOWNSAMPLE_FACTOR == 2
\* Capacity of the Stokes channel to the exfil consumer.
StokesChanCap == 2
\* Capacity of the averaged-spectrum channel to the monitor.
AvgChanCap == 1
\* Count of the first payload pushed into the DumpRing.
FirstRingCount == 10
\* Number of payloads fed to payload_split.
MaxSplitInputs == 4
\* Capacity of the channel behind payload_split's rcv.
SplitInCap == 2
\* Capacity of the channel behind payload_split's to_downsample.
ToDownsampleCap == 2
\* Capacity of the channel behind payload_split's to_dumps.
ToDumpsCap == 1
\* Capacity of the payload and Stokes channels (1024 in main.rs:26, scaled).
FAST_PATH_CHANNEL_SIZE == 1
\* Capacity of the trigger channel (5 in main.rs:108, scaled).
TrigChanCap == 1
\* Capacity of the statistics channel (100 in main.rs:109, scaled).
StatChanCap == 1
\* dada_consumer's window_size, the `samples` of the command line.
DadaWindowSize == 2
\* Number of blocks of the PSRDADA buffer.
DadaBlocks == 1
\* Length of a Stokes vector at the exfil sinks (CHANNELS = 2048 in
\* common.rs:9), long enough for two edges and a middle.
ExfilChannels == 4
\* Last channel of the lower edge the sink zeroes (250 in exfil.rs:106).
LowEdgeLast == 0
\* Bytes of the packet count (8 in capture.rs:25): two keep the count within
\* the integers the checker has.
TIMESTAMP_SIZE == 2
\* Words in the spectra block of a datagram (8192 / 8 in capture.rs:27).
SpectraWords == 1
\* Payloads the injection task receives.
MaxInjInputs == 5
\* Longest pulse, in time samples, and most pulse files in the directory.
MaxPulseLen == 3
MaxPulseFiles == 2
\* Longest injection cadence and the time the clock runs, in clock ticks.
MaxCadence == 3
MaxInjTime == 5
\* Packets Capture reads, the largest count of a packet, the capacity of the
\* channels from Capture to the sink and the largest downsample power of the
\* command line, for the first-packet count and the sink's header.
MaxFpPackets == 4
MaxFpCount == 3
FpChanCap == 2
MaxFpPower == 1
\* Payloads and trigger signals that reach dump_task, and the capacity of its
\* payload channel (scaled).
MaxDtPayloads == 2
MaxDtSignals == 2
DtChanCap == 1
\* Payloads of a capture chunk (32768 in capture.rs:32, scaled), slots of
\* the backlog of stateful_sort (32768 in capture.rs:200, scaled), the
\* largest count of a payload in a chunk and the chunks sorted.
PACKETS_PER_CAPTURE == 2
UnsortedSize == 2
MaxSortCount == 4
MaxSortCalls == 2

\* ------------------------------------------------------------------ state
VARIABLES
    \* reorder_task (processing.rs:151-188)
    rb,             \* the ReorderBuf: [buf, free_idxs, queued, next_needed]
    first_payload,  \* reorder_task's first_payload flag
    sent,           \* every payload passed to payload_send.send, in order
    arrivals,       \* number of payloads taken from payload_recv
    last,           \* the iteration last run: its payload, branch, output and
                    \* the state it started from
    \* tests::test_reorder (processing.rs:135-147)
    t_phase,        \* "push", "iter" or "done"
    t_pushed,       \* the payloads pushed, in order
    t_start,        \* next_needed when the iteration began
    t_yielded,      \* the payloads the iterator has yielded, in order
    \* DumpRing (dumps.rs:19-113)
    ring,           \* [capacity, container, write_index]
    ring_status,    \* "run", or "panic" once a push has panicked and
                    \* "dump_panic" once a dump has
    ring_pushed,    \* every payload written through next_push, in order
    dump,           \* the last dump: [done, ok, at, records]
    \* downsample_task (processing.rs:16-69)
    downsample_factor,
    ds,             \* [stokes_avg, stokes_idx, monitor_avg, monitor_idx]
    stokes_chan,    \* contents of the channel behind stokes_send
    avg_chan,       \* contents of the channel behind avg_snd
    ds_in,          \* every payload received, in order
    ds_windows,     \* every average offered to stokes_send, in order
    stokes_rcvd,    \* every average the exfil consumer has received, in order
    \* payload_split (common.rs:139-151)
    split,          \* [pc, x]: the splitter's position and the payload it holds
    split_in,       \* contents of the channel behind rcv
    to_downsample,  \* contents of the channel behind to_downsample
    to_dumps,       \* contents of the channel behind to_dumps
    split_log,      \* [fed, rcvd, down, dumps]: the payloads fed to rcv, taken
                    \* by the splitter, and taken off each output channel
    \* stokes_i (common.rs:43-49) applied to one pair of polarizations
    stokes_in,      \* [pol_a, pol_b]: the arguments
    stokes_out,     \* [status, value]: "none" before the call, "ok" with the
                    \* value returned, or "panic"
    \* main and the threads and tasks it spawns (main.rs:44-198)
    shutdown,       \* the broadcast: [sent, pending], pending the receivers
                    \* whose message waits to be taken
    pc,             \* where each thread, each task and main is: "ok" and
                    \* "err" are a thread that has returned Ok or Err
    chans,          \* number of items in each channel of main.rs:101-109
    exfil,          \* [kind, stokes_cnt]: the consumer run by the exfil thread
                    \* and dada_consumer's stokes_cnt
    dada,           \* [free, full]: blocks of the PSRDADA buffer that are free
                    \* to write and that wait for the reader
    joined,         \* number of handles main has joined
    trig_credit,    \* datagrams recv_from has returned less dumps started
    \* one Stokes vector at an exfil sink (exfil.rs:88-109, 154-166)
    sink,           \* [kind, stokes, written, done]: the consumer, the vector
                    \* it received and the values it has written
    \* Payload::from_bytes (capture.rs:36-59) applied to one datagram
    codec,          \* [bytes, payload, encoded, done]: the datagram, the
                    \* payload decoded from it and that payload packed again
    \* pulse_injection_task's data path (injection.rs:25-128)
    inj,            \* [dir, cadence, mode, cur, i, currently_injecting,
                    \* last_injection, now, rcvd, out]: the pulse directory
                    \* ([exists, pulses], pulses the lengths of its .dat
                    \* files), the branch taken, the pulse file in use, the
                    \* task's locals, the clock, the number of payloads
                    \* received and the payloads sent on, each with the
                    \* pulse sample added to it (-1 for none) and the pulse's
                    \* length
    \* the first-packet count (exfil.rs:1, 98, 160)
    fp,             \* [kind, power, factor, sink_factor, FIRST_PACKET,
                    \* writes, first_seen, first_count, packets, payloads,
                    \* acc, windows, stokes, first_payload, reads, headers,
                    \* data]: the sink, the downsample power of the command
                    \* line, the downsampler's factor and the sink's, the
                    \* atomic, the stores made to it, Capture's flag and the
                    \* count of the first packet it accepted, the packets
                    \* read, the counts in the channel to the downsampler,
                    \* the payloads in its accumulator, the sizes of the
                    \* windows it averaged, the Stokes vectors in the channel
                    \* to the sink, the sink's flag, the values the sink
                    \* loaded, the headers it wrote (each with the number of
                    \* vectors written before it) and the vectors it wrote
    \* dump_task step by step (dumps.rs:140-175)
    dtask,          \* [pc, sd, closed, trig, chan, arrived, signals,
                    \* pending_at_start, pushed_past, waited, served_after,
                    \* since_fail]: the task's position, the shutdown message
                    \* waiting, the payload channel closed, the signals and
                    \* payloads waiting, the payloads and signals sent so far,
                    \* whether a signal waited when the iteration began,
                    \* whether a payload was pushed in such an iteration, the
                    \* receives completed with a signal waiting since the
                    \* last dump began and their number when it began, and the
                    \* pushes and dumps since the last failed dump (-1: none)
    \* stateful_sort and sort_split_task (capture.rs:164-322)
    sorter,         \* [oldest_count, unsorted, calls, base, out]: the task's
                    \* oldest_count (-1 for None), the backlog
                    \* UNSORTED_PAYLOADS ([map, buf, free_idxs]), the chunks
                    \* handled, and the base count and the output of the
                    \* last
    \* the pulse overlay on one sample (injection.rs:82-94)
    ov              \* [re, im, pulse, status, out_re, out_im, n]: the sample
                    \* before the overlay, the pulse value in halves, whether
                    \* the overlay is still to run ("ready"), stored its
                    \* result ("stored") or ended in an overflow panic
                    \* ("panicked"), the sample after it, and the number
                    \* of samples taken

reorderVars == <<rb, first_payload, sent, arrivals, last>>
testVars == <<t_phase, t_pushed, t_start, t_yielded>>
ringVars == <<ring, ring_status, ring_pushed, dump>>
dsVars == <<downsample_factor, ds, stokes_chan, avg_chan, ds_in, ds_windows,
           stokes_rcvd>>
splitVars == <<split, split_in, to_downsample, to_dumps, split_log>>
stokesVars == <<stokes_in, stokes_out>>
controlVars == <<shutdown, pc, chans, exfil, dada, joined, trig_credit>>
laterVars == <<sink, codec, inj, fp, dtask, sorter, ov>>
otherStageVars == <<splitVars, stokesVars, controlVars, laterVars>>
dataStageVars == <<reorderVars, testVars, ringVars, dsVars>>
vars == <<dataStageVars, otherStageVars>>
\* The variables each of the later stages leaves alone.
notSplitVars == <<dataStageVars, stokesVars, controlVars, laterVars>>
notStokesVars == <<dataStageVars, splitVars, controlVars, laterVars>>
notControlVars == <<dataStageVars, splitVars, stokesVars, laterVars>>
earlierVars == <<dataStageVars, splitVars, stokesVars, controlVars>>
notSinkVars == <<earlierVars, codec, inj, fp, dtask, sorter, ov>>
notCodecVars == <<earlierVars, sink, inj, fp, dtask, sorter, ov>>
notInjVars == <<earlierVars, sink, codec, fp, dtask, sorter, ov>>
notFpVars == <<earlierVars, sink, codec, inj, dtask, sorter, ov>>
notDumpTaskVars == <<reorderVars, testVars, dsVars, splitVars, stokesVars,
                    controlVars, sink, codec, inj, fp, sorter, ov>>
notSortVars == <<earlierVars, sink, codec, inj, fp, dtask, ov>>
notOvVars == <<earlierVars, sink, codec, inj, fp, dtask, sorter>>

\* ------------------------------------------------------------------ payloads
\* Channel::default (common.rs:19-23)
ChannelDefault == <<0, 0>>

\* Payload::default (common.rs:68-77): count 0, all channels zero.
PayloadDefault ==
    [count |-> 0,
     pol_a |-> [k \in 1..CHANNELS |-> ChannelDefault],
     pol_b |-> [k \in 1..CHANNELS |-> ChannelDefault]]

\* A payload with count c whose voltages all carry the sample x in pol_a.
FlatPayload(c, x) ==
    [count |-> c,
     pol_a |-> [k \in 1..CHANNELS |-> <<x, 0>>],
     pol_b |-> [k \in 1..CHANNELS |-> ChannelDefault]]

\* ------------------------------------------------------------------ ReorderBuf
\* (0..n).collect()
RangeVec(n) == [i \in 1..n |-> i - 1]

\* The empty HashMap
EmptyMap == [c \in {} |-> 0]

\* HashMap::insert
MapInsert(m, key, v) ==
    [c \in (DOMAIN m) \cup {key} |-> IF c = key THEN v ELSE m[c]]

\* HashMap::remove (the map without the key)
MapRemove(m, key) == [c \in (DOMAIN m) \ {key} |-> m[c]]

\* ReorderBuf::new (processing.rs:79-86)
RbNew ==
    [buf         |-> [i \in 0..(PACKET_REODER_BUF_SIZE - 1) |-> PayloadDefault],
     free_idxs   |-> RangeVec(PACKET_REODER_BUF_SIZE),
     queued      |-> EmptyMap,
     next_needed |-> 0]

\* RbPush without the capacity check: a full buffer hands out slot 0 again.
RbPushUnbounded(r, p) ==
    LET full     == r.free_idxs = <<>>
        next_idx == IF full THEN 0 ELSE r.free_idxs[Len(r.free_idxs)]
    IN  [rb |-> [r EXCEPT
                  !.free_idxs = IF full THEN <<>>
                                ELSE SubSeq(r.free_idxs, 1, Len(r.free_idxs) - 1),
                  !.queued    = MapInsert(r.queued, p.count, next_idx),
                  !.buf       = [r.buf EXCEPT ![next_idx] = p]],
         ok |-> TRUE]

\* ReorderBuf::push (processing.rs:89-97): [rb, ok]; ok = FALSE is None.
RbPush(r, p) ==
    IF r.free_idxs = <<>>
    THEN [rb |-> r, ok |-> FALSE]
    ELSE LET next_idx == r.free_idxs[Len(r.free_idxs)]
         IN  [rb |-> [r EXCEPT
                       !.free_idxs = SubSeq(r.free_idxs, 1, Len(r.free_idxs) - 1),
                       !.queued    = MapInsert(r.queued, p.count, next_idx),
                       !.buf       = [r.buf EXCEPT ![next_idx] = p]],
              ok |-> TRUE]

\* ReorderBuf::set_needed (processing.rs:100-102)
RbSetNeeded(r, n) == [r EXCEPT !.next_needed = n]

\* ReorderBuf::get_needed (processing.rs:105-107)
RbGetNeeded(r) == r.next_needed

\* ReorderBuf::reset (processing.rs:110-113)
RbReset(r) ==
    [r EXCEPT !.queued = EmptyMap,
              !.free_idxs = RangeVec(PACKET_REODER_BUF_SIZE)]

\* RbNext that forgets to increment next_needed.
RbNextNoAdvance(r) ==
    IF r.next_needed \notin DOMAIN r.queued
    THEN [rb |-> r, item |-> <<>>]
    ELSE LET idx == r.queued[r.next_needed]
         IN  [rb |-> [r EXCEPT
                       !.queued    = MapRemove(r.queued, r.next_needed),
                       !.free_idxs = Append(r.free_idxs, idx)],
              item |-> <<r.buf[idx]>>]

\* Iterator::next for ReorderBuf (processing.rs:119-128): [rb, item];
\* item is <<>> for None and <<payload>> for Some(payload).
RbNext(r) ==
    IF r.next_needed \notin DOMAIN r.queued
    THEN [rb |-> r, item |-> <<>>]
    ELSE LET idx == r.queued[r.next_needed]
         IN  [rb |-> [r EXCEPT
                       !.queued      = MapRemove(r.queued, r.next_needed),
                       !.free_idxs   = Append(r.free_idxs, idx),
                       !.next_needed = r.next_needed + 1],
              item |-> <<r.buf[idx]>>]

\* RbDrain that takes at most one payload (`if let` in place of `for`).
RbDrainOnce(r) ==
    LET n == RbNext(r)
    IN  [rb |-> n.rb, out |-> n.item]

\* `for pl in rb.by_ref()` (processing.rs:184-186): call next until None;
\* [rb, out] with out the payloads yielded, in order.
RECURSIVE RbDrain(_)
RbDrain(r) ==
    LET n == RbNext(r)
    IN  IF n.item = <<>>
        THEN [rb |-> n.rb, out |-> <<>>]
        ELSE LET rest == RbDrain(n.rb)
             IN  [rb |-> rest.rb, out |-> n.item \o rest.out]

\* ------------------------------------------------------------------ reorder_task
\* One iteration of reorder_task's loop (processing.rs:154-187) on payload p:
\* [rb, first_payload, out, branch]; out is what the iteration sends, branch
\* is "direct", "queued", "overflow", or "panic" when the task dies.
ReorderStep(r, first, p) ==
    IF first \/ p.count = RbGetNeeded(r)
    THEN LET r1 == RbSetNeeded(r, p.count + 1)
             d  == RbDrain(r1)
         IN  [rb |-> d.rb, first_payload |-> FALSE,
              out |-> <<p>> \o d.out, branch |-> "direct"]
    ELSE LET pu == RbPush(r, p)
         IN  IF ~pu.ok /\ DOMAIN r.queued = {}
             THEN \* rb.queued.keys().min().unwrap() panics on an empty map
                  [rb |-> r, first_payload |-> first,
                   out |-> <<>>, branch |-> "panic"]
             ELSE IF ~pu.ok
             THEN LET r1 == RbSetNeeded(RbReset(pu.rb), p.count + 1)
                      d  == RbDrain(r1)
                  IN  [rb |-> d.rb, first_payload |-> first,
                       out |-> <<p>> \o d.out, branch |-> "overflow"]
             ELSE LET d == RbDrain(pu.rb)
                  IN  [rb |-> d.rb, first_payload |-> first,
                       out |-> d.out, branch |-> "queued"]

\* The payloads the ordering stage can receive next: any count, and voltages
\* that identify the arrival.
ReorderInputs == {FlatPayload(c, arrivals + 1) : c \in 0..MaxCount}

\* reorder_task receives payload p (processing.rs:156) and runs one loop
\* iteration (processing.rs:159-186).  payload_send.send only delays the task
\* while the channel is full, so the payloads sent are recorded in order.
ReorderTask(p) ==
    /\ arrivals < MaxArrivals
    /\ last.branch # "panic"
    /\ LET s == ReorderStep(rb, first_payload, p)
       IN  /\ rb' = s.rb
           /\ first_payload' = s.first_payload
           /\ sent' = sent \o s.out
           /\ last' = [p       |-> p,
                       branch  |-> s.branch,
                       out     |-> s.out,
                       first   |-> first_payload,
                       needed  |-> rb.next_needed,
                       backlog |-> DOMAIN rb.queued,
                       free    |-> Len(rb.free_idxs)]
    /\ arrivals' = arrivals + 1
    /\ UNCHANGED <<testVars, ringVars, dsVars>>
    /\ UNCHANGED otherStageVars

\* reorder_task before its first iteration (processing.rs:152-153).
ReorderInit ==
    /\ rb = RbNew
    /\ first_payload = TRUE
    /\ sent = <<>>
    /\ arrivals = 0
    /\ last = [p |-> PayloadDefault, branch |-> "none", out |-> <<>>,
               first |-> TRUE, needed |-> 0, backlog |-> {}, free |-> 0]

\* ------------------------------------------------------------------ tests::test_reorder
\* The harness of the unit test (processing.rs:135-147), generalised: payloads
\* are pushed in any order, then the buffer is iterated until it yields None.
TestInit ==
    /\ t_phase = "push"
    /\ t_pushed = <<>>
    /\ t_start = 0
    /\ t_yielded = <<>>

\* rb.set_needed(n) before the pushes: the count the iteration starts from.
TestSetNeeded(n) ==
    /\ t_phase = "push"
    /\ t_pushed = <<>>
    /\ rb.next_needed = 0
    /\ n > 0
    /\ rb' = RbSetNeeded(rb, n)
    /\ UNCHANGED <<first_payload, sent, arrivals, last>>
    /\ UNCHANGED <<testVars, ringVars, dsVars>>
    /\ UNCHANGED otherStageVars

\* rb.push(&payload) (processing.rs:139-142); the result is ignored.
TestPush(p) ==
    /\ t_phase = "push"
    /\ Len(t_pushed) < MaxTestPushes
    /\ rb' = RbPush(rb, p).rb
    /\ t_pushed' = Append(t_pushed, p)
    /\ UNCHANGED <<first_payload, sent, arrivals, last>>
    /\ UNCHANGED <<t_phase, t_start, t_yielded, ringVars, dsVars>>
    /\ UNCHANGED otherStageVars

\* One step of `for (i, payload) in rb.by_ref().enumerate()`
\* (processing.rs:144-146): the loop ends when next returns None.
TestIterNext ==
    /\ t_phase \in {"push", "iter"}
    /\ LET n == RbNext(rb)
       IN  /\ rb' = n.rb
           /\ t_yielded' = t_yielded \o n.item
           /\ t_phase' = IF n.item = <<>> THEN "done" ELSE "iter"
    /\ t_start' = IF t_phase = "push" THEN rb.next_needed ELSE t_start
    /\ UNCHANGED <<first_payload, sent, arrivals, last>>
    /\ UNCHANGED <<t_pushed, ringVars, dsVars>>
    /\ UNCHANGED otherStageVars

TestInputs == {FlatPayload(c, Len(t_pushed) + 1) : c \in 0..MaxCount}

\* ------------------------------------------------------------------ DumpRing
\* 2usize.pow(n)
RECURSIVE Pow2(_)
Pow2(n) == IF n = 0 THEN 1 ELSE 2 * Pow2(n - 1)

\* DumpRing::new (dumps.rs:32-39)
RingNew(size_power) ==
    LET cap == Pow2(size_power)
    IN  [capacity    |-> cap,
         container   |-> [i \in 0..(cap - 1) |-> PayloadDefault],
         write_index |-> 0]

\* The index arithmetic of the ring (dumps.rs:28, 71, 106): the index after
\* idx.  The remainder by zero panics, which the callers test before.
RingAdvance(r, idx) == (idx + 1) % (r.capacity - 1)

\* `%` panics when its divisor is zero (dumps.rs:28, 71, 106).
RingAdvancePanics(r) == r.capacity - 1 = 0

\* DumpRing::next_push (dumps.rs:26-30): [ring, idx]; idx is the slot whose
\* reference is returned.
RingNextPush(r) ==
    [ring |-> [r EXCEPT !.write_index = RingAdvance(r, r.write_index)],
     idx  |-> r.write_index]

\* One of the two traversal loops of DumpRing::dump (dumps.rs:63-76 for the
\* times, 100-110 for the voltages): the payloads visited from read_idx until
\* the index comes back to write_index.
RECURSIVE RingTraverse(_, _)
RingTraverse(r, read_idx) ==
    LET pl   == r.container[read_idx]
        next == RingAdvance(r, read_idx)
    IN  IF next = r.write_index
        THEN <<pl>>
        ELSE <<pl>> \o RingTraverse(r, next)

\* The records DumpRing::dump writes (dumps.rs:62-110): record i carries the
\* time of the i-th payload of the first traversal (computed from its count)
\* and the voltages of the i-th payload of the second.
RingDumpRecords(r) ==
    LET times    == RingTraverse(r, r.write_index)
        voltages == RingTraverse(r, r.write_index)
    IN  [i \in 1..Len(times) |->
            [count |-> times[i].count,
             pol_a |-> voltages[i].pol_a,
             pol_b |-> voltages[i].pol_b]]

\* The payloads the dump task can receive next.
RingInputs ==
    {FlatPayload(FirstRingCount + Len(ring_pushed), x) : x \in 0..MaxSample}

\* dump_task's push branch (dumps.rs:164-167): ring.next_push() and
\* clone_from into the slot it returns.
RingPushTask(p) ==
    /\ ring_status = "run"
    /\ Len(ring_pushed) < MaxRingPushes
    /\ IF RingAdvancePanics(ring)
       THEN /\ ring_status' = "panic"
            /\ UNCHANGED <<ring, ring_pushed>>
       ELSE LET np == RingNextPush(ring)
            IN  /\ ring' = [np.ring EXCEPT !.container[np.idx] = p]
                /\ ring_pushed' = Append(ring_pushed, p)
                /\ UNCHANGED ring_status
    /\ UNCHANGED <<dump, reorderVars, testVars, dsVars>>
    /\ UNCHANGED otherStageVars

\* dump_task's dump branch (dumps.rs:156-160): ring.dump(&start_time, &path).
\* io_ok = FALSE is netcdf::create failing (dumps.rs:47): dump returns Err
\* before it reads the ring, and the task logs the error and goes on.  With
\* a capacity of 1 the first advance of read_idx panics (dumps.rs:71).
RingDumpTask(io_ok) ==
    /\ ring_status = "run"
    /\ IF ~io_ok
       THEN /\ dump' = [done |-> TRUE, ok |-> FALSE,
                        at |-> Len(ring_pushed), records |-> <<>>]
            /\ UNCHANGED ring_status
       ELSE IF RingAdvancePanics(ring)
       THEN /\ ring_status' = "dump_panic"
            /\ UNCHANGED dump
       ELSE /\ dump' = [done |-> TRUE, ok |-> TRUE,
                        at |-> Len(ring_pushed),
                        records |-> RingDumpRecords(ring)]
            /\ UNCHANGED ring_status
    /\ UNCHANGED <<ring, ring_pushed, reorderVars, testVars, dsVars>>
    /\ UNCHANGED otherStageVars

\* The ring as main builds it (main.rs:99), with no dump taken yet.
RingInit(size_power) ==
    /\ ring = RingNew(size_power)
    /\ ring_status = "run"
    /\ ring_pushed = <<>>
    /\ dump = [done |-> FALSE, ok |-> FALSE, at |-> 0, records |-> <<>>]

\* ------------------------------------------------------------------ Stokes
\* u16::MAX (common.rs:46)
U16_MAX == 65535

\* Wrap-around of i16 arithmetic.
I16Wrap(x) == ((x + 32768) % 65536) - 32768

\* `as u16` of an i16.
AsU16(x) == x % 65536

\* Channel::abs_squared (common.rs:33-37): i16 arithmetic cast to u16.  The
\* sum leaves the i16 range for (-128, -128) only, where a build without
\* overflow checks wraps as written here.
AbsSquared(ch) == AsU16(I16Wrap(ch[1] * ch[1] + ch[2] * ch[2]))

\* Values of f32/f64 are kept as exact fractions [num, den], den > 0; the
\* rounding of the floating-point operations is not modelled.
FracZero == [num |-> 0, den |-> 1]

\* x + y
FracAdd(f, g) ==
    IF f.den = g.den
    THEN [num |-> f.num + g.num, den |-> f.den]
    ELSE [num |-> f.num * g.den + g.num * f.den, den |-> f.den * g.den]

\* x / d for a whole number d
FracDiv(f, d) == [num |-> f.num, den |-> f.den * d]

\* x = y
FracEq(f, g) == f.num * g.den = g.num * f.den

\* [0f32; CHANNELS]
StokesZero == [k \in 1..CHANNELS |-> FracZero]

\* stokes_i (common.rs:43-49): the u16 sum of the squared magnitudes of the
\* two polarizations, as f32, divided by u16::MAX.
StokesI(a, b) ==
    [k \in 1..CHANNELS |->
        [num |-> (AbsSquared(a[k]) + AbsSquared(b[k])) % 65536,
         den |-> U16_MAX]]

\* Payload::stokes_i (common.rs:84-86)
PayloadStokesI(p) == StokesI(p.pol_a, p.pol_b)

\* `r * r + i * i` leaves the i16 range (common.rs:36).
AbsSquaredOverflows(ch) == ch[1] * ch[1] + ch[2] * ch[2] > 32767

\* `a.abs_squared() + b.abs_squared()` leaves the u16 range (common.rs:46).
StokesSumOverflows(ach, bch) == AbsSquared(ach) + AbsSquared(bch) > 65535

\* One call of stokes_i (common.rs:43-49): [status, value].  An integer
\* overflow panics in a build with overflow checks (checks = TRUE) and wraps
\* in a build without them.
StokesCall(a, b, checks) ==
    IF checks /\ \E k \in 1..CHANNELS :
                     \/ AbsSquaredOverflows(a[k])
                     \/ AbsSquaredOverflows(b[k])
                     \/ StokesSumOverflows(a[k], b[k])
    THEN [status |-> "panic", value |-> StokesZero]
    ELSE [status |-> "ok", value |-> StokesI(a, b)]

\* The values an i8 component takes in the calls checked: both ends of the
\* range and the small values around zero.
I8Samples == {-128, -127, 127} \cup ((0 - MaxSample)..MaxSample)

\* stokes_i is called on the arguments held in stokes_in.
StokesCompute(checks) ==
    /\ stokes_out.status = "none"
    /\ stokes_out' = StokesCall(stokes_in.pol_a, stokes_in.pol_b, checks)
    /\ UNCHANGED stokes_in
    /\ UNCHANGED notStokesVars

\* The arguments of the call: channel 1 carries (ach, bch), the channels after
\* it the same pair with the polarizations exchanged.
StokesInit(ach, bch) ==
    /\ stokes_in = [pol_a |-> [k \in 1..CHANNELS |-> IF k = 1 THEN ach ELSE bch],
                    pol_b |-> [k \in 1..CHANNELS |-> IF k = 1 THEN bch ELSE ach]]
    /\ stokes_out = [status |-> "none", value |-> StokesZero]

\* ------------------------------------------------------------------ downsample_task
\* Sender::try_send on a bounded channel: the item is dropped when it is full.
TrySend(chan, cap, item) ==
    IF Len(chan) < cap THEN Append(chan, item) ELSE chan

\* DownsampleStep that does not zero the averaging buffer after a window.
DownsampleStepNoZero(st, factor, p) ==
    LET acc == [k \in 1..CHANNELS |->
                   FracAdd(st.stokes_avg[k], PayloadStokesI(p)[k])]
        avg == [k \in 1..CHANNELS |-> FracDiv(acc[k], factor)]
        fin == st.stokes_idx = factor - 1
    IN  [ds |-> [st EXCEPT !.stokes_avg = IF fin THEN avg ELSE acc,
                            !.stokes_idx = (st.stokes_idx + 1) % factor],
         window  |-> IF fin THEN <<avg>> ELSE <<>>,
         monitor |-> <<>>]

\* One iteration of downsample_task's loop (processing.rs:30-67) on payload p:
\* [ds, window, monitor]; window and monitor are what the iteration offers to
\* stokes_send and avg_snd (<<>> for nothing).
DownsampleStep(st, factor, p) ==
    LET acc == [k \in 1..CHANNELS |->
                   FracAdd(st.stokes_avg[k], PayloadStokesI(p)[k])]
        avg == [k \in 1..CHANNELS |-> FracDiv(acc[k], factor)]
        mon == [k \in 1..CHANNELS |-> FracAdd(st.monitor_avg[k], avg[k])]
        monavg == [k \in 1..CHANNELS |->
                      FracDiv(mon[k], MONITOR_SPEC_DOWNSAMPLE_FACTOR)]
        fin == st.stokes_idx = factor - 1
        monfin == st.monitor_idx = MONITOR_SPEC_DOWNSAMPLE_FACTOR - 1
    IN  IF fin
        THEN [ds |-> [stokes_avg  |-> StokesZero,
                      stokes_idx  |-> (st.stokes_idx + 1) % factor,
                      monitor_avg |-> IF monfin THEN StokesZero ELSE mon,
                      monitor_idx |-> (st.monitor_idx + 1)
                                          % MONITOR_SPEC_DOWNSAMPLE_FACTOR],
              window  |-> <<avg>>,
              monitor |-> IF monfin THEN <<monavg>> ELSE <<>>]
        ELSE [ds |-> [st EXCEPT !.stokes_avg = acc,
                                !.stokes_idx = (st.stokes_idx + 1) % factor],
              window  |-> <<>>,
              monitor |-> <<>>]

\* The payloads the downsampler can receive next: consecutive counts, and
\* voltages that differ from channel to channel and between polarizations.
DownInputs ==
    {[count |-> Len(ds_in),
      pol_a |-> [k \in 1..CHANNELS |-> <<x + k - 1, 0>>],
      pol_b |-> [k \in 1..CHANNELS |-> <<0, 0 - x>>]] : x \in 0..MaxSample}

\* downsample_task receives payload p (processing.rs:30) and runs one loop
\* iteration (processing.rs:32-67).
DownsampleTask(p) ==
    /\ Len(ds_in) < MaxDownInputs
    /\ LET s == DownsampleStep(ds, downsample_factor, p)
       IN  /\ ds' = s.ds
           /\ stokes_chan' = IF s.window = <<>> THEN stokes_chan
                             ELSE TrySend(stokes_chan, StokesChanCap, s.window[1])
           /\ avg_chan' = IF s.monitor = <<>> THEN avg_chan
                          ELSE TrySend(avg_chan, AvgChanCap, s.monitor[1])
           /\ ds_windows' = ds_windows \o s.window
    /\ ds_in' = Append(ds_in, p)
    /\ UNCHANGED <<downsample_factor, stokes_rcvd>>
    /\ UNCHANGED <<reorderVars, testVars, ringVars>>
    /\ UNCHANGED otherStageVars

\* The exfil consumer takes the oldest average off the Stokes channel
\* (exfil.rs:38).
StokesRecv ==
    /\ stokes_chan # <<>>
    /\ stokes_chan' = Tail(stokes_chan)
    /\ stokes_rcvd' = Append(stokes_rcvd, Head(stokes_chan))
    /\ UNCHANGED <<downsample_factor, ds, avg_chan, ds_in, ds_windows>>
    /\ UNCHANGED <<reorderVars, testVars, ringVars>>
    /\ UNCHANGED otherStageVars

\* The receiver of avg_snd takes the oldest monitor spectrum off its channel.
AvgRecv ==
    /\ avg_chan # <<>>
    /\ avg_chan' = Tail(avg_chan)
    /\ UNCHANGED <<downsample_factor, ds, stokes_chan, ds_in, ds_windows,
                   stokes_rcvd>>
    /\ UNCHANGED <<reorderVars, testVars, ringVars>>
    /\ UNCHANGED otherStageVars

\* downsample_task fed by the ordering stage: the payload it receives is the
\* oldest one reorder_task has sent and it has not taken yet
\* (processing.rs:30 reading what processing.rs:160, 180, 185 sent).
DownsampleFromReorder ==
    /\ Len(ds_in) < Len(sent)
    /\ DownsampleTask(sent[Len(ds_in) + 1])

\* downsample_task before its first iteration (processing.rs:24-28).
DownsampleInit(factor) ==
    /\ downsample_factor = factor
    /\ ds = [stokes_avg  |-> StokesZero, stokes_idx  |-> 0,
             monitor_avg |-> StokesZero, monitor_idx |-> 0]
    /\ stokes_chan = <<>>
    /\ avg_chan = <<>>
    /\ ds_in = <<>>
    /\ ds_windows = <<>>
    /\ stokes_rcvd = <<>>

\* ------------------------------------------------------------------ payload_split
\* Sender::send on a bounded channel: [ok, chan]; ok = FALSE is the sender
\* waiting because the channel is full, with nothing sent.
ChanSendLossy(chan, cap, item) ==
    [ok |-> TRUE, chan |-> IF Len(chan) < cap THEN Append(chan, item) ELSE chan]

ChanSend(chan, cap, item) ==
    IF Len(chan) < cap
    THEN [ok |-> TRUE, chan |-> Append(chan, item)]
    ELSE [ok |-> FALSE, chan |-> chan]

\* The payloads the splitter's source can produce next: consecutive counts.
SplitInputs ==
    {FlatPayload(Len(split_log.fed), x) : x \in 0..MaxSample}

\* The task upstream of the splitter sends payload p into rcv's channel.
SplitFeed(p) ==
    /\ Len(split_log.fed) < MaxSplitInputs
    /\ LET r == ChanSend(split_in, SplitInCap, p)
       IN  /\ r.ok
           /\ split_in' = r.chan
    /\ split_log' = [split_log EXCEPT !.fed = Append(@, p)]
    /\ UNCHANGED <<split, to_downsample, to_dumps>>
    /\ UNCHANGED notSplitVars

\* `let x = rcv.recv().unwrap()` (common.rs:145): waits for a payload.
SplitRecv ==
    /\ split.pc = "recv"
    /\ split_in # <<>>
    /\ split' = [pc |-> "send", x |-> Head(split_in)]
    /\ split_in' = Tail(split_in)
    /\ split_log' = [split_log EXCEPT !.rcvd = Append(@, Head(split_in))]
    /\ UNCHANGED <<to_downsample, to_dumps>>
    /\ UNCHANGED notSplitVars

\* `to_downsample.send(x).unwrap()` (common.rs:147): waits while the channel
\* is full.
SplitSend ==
    /\ split.pc = "send"
    /\ LET r == ChanSend(to_downsample, ToDownsampleCap, split.x)
       IN  /\ r.ok
           /\ to_downsample' = r.chan
    /\ split' = [split EXCEPT !.pc = "try_send"]
    /\ UNCHANGED <<split_in, to_dumps, split_log>>
    /\ UNCHANGED notSplitVars

\* `let _ = to_dumps.try_send(x)` (common.rs:149), then the loop starts over.
SplitTrySend ==
    /\ split.pc = "try_send"
    /\ to_dumps' = TrySend(to_dumps, ToDumpsCap, split.x)
    /\ split' = [split EXCEPT !.pc = "recv"]
    /\ UNCHANGED <<split_in, to_downsample, split_log>>
    /\ UNCHANGED notSplitVars

\* downsample_task takes the oldest payload off to_downsample's channel
\* (processing.rs:30).
ToDownsampleRecv ==
    /\ to_downsample # <<>>
    /\ to_downsample' = Tail(to_downsample)
    /\ split_log' = [split_log EXCEPT !.down = Append(@, Head(to_downsample))]
    /\ UNCHANGED <<split, split_in, to_dumps>>
    /\ UNCHANGED notSplitVars

\* The dump task takes the oldest payload off to_dumps' channel.
ToDumpsRecv ==
    /\ to_dumps # <<>>
    /\ to_dumps' = Tail(to_dumps)
    /\ split_log' = [split_log EXCEPT !.dumps = Append(@, Head(to_dumps))]
    /\ UNCHANGED <<split, split_in, to_downsample>>
    /\ UNCHANGED notSplitVars

\* payload_split before its first iteration (common.rs:144), with empty
\* channels.
SplitInit ==
    /\ split = [pc |-> "recv", x |-> PayloadDefault]
    /\ split_in = <<>>
    /\ to_downsample = <<>>
    /\ to_dumps = <<>>
    /\ split_log = [fed |-> <<>>, rcvd |-> <<>>, down |-> <<>>, dumps |-> <<>>]

\* ------------------------------------------------------------------ threads, shutdown, trigger
\* The threads main spawns, in the order of `handles` (main.rs:127-183).
Threads == <<"collect", "injection", "downsample", "dump", "exfil", "capture">>

\* The tasks main spawns on its own runtime (main.rs:187-189).
Tasks == {"web", "trigger"}

\* The holders of a receiver of the shutdown broadcast (main.rs:44-50).
ShutdownReceivers ==
    {"capture", "collect", "injection", "downsample", "dump", "exfil", "trigger"}

\* The thread or task c has returned.
Returned(c) == pc[c] \in {"ok", "err"}

\* The process has exited: main has returned, which ends every thread.
Exited == pc["main"] \in {"exit_ok", "exit_err"}

\* `shutdown.try_recv().is_ok()`: the broadcast message waits for c.
ShutdownSeen(c) == c \in shutdown.pending

\* The receiver's side of the broadcast once c has taken its message.
ShutdownTaken(c) == [shutdown EXCEPT !.pending = @ \ {c}]

\* The thread or task c takes the shutdown message and returns Ok(()).
ReturnOnShutdown(c) ==
    /\ shutdown' = ShutdownTaken(c)
    /\ pc' = [pc EXCEPT ![c] = "ok"]

\* The signal handler main spawns (main.rs:51-62): a termination signal
\* arrives and `sd_s.send(())` hands one message to every receiver.  The
\* handler runs on main's single-threaded runtime (main.rs:31): it does not
\* run while main has left try_join! or while trigger_task sits in its
\* blocking send.
ShutdownSignal ==
    /\ ~Exited
    /\ ~shutdown.sent
    /\ pc["main"] = "try_join"
    /\ pc["trigger"] # "send"
    /\ shutdown' = [sent |-> TRUE, pending |-> ShutdownReceivers]
    /\ UNCHANGED <<pc, chans, exfil, dada, joined, trig_credit>>
    /\ UNCHANGED notControlVars

\* The web server (monitoring.rs:176-183) stops when the process is
\* signalled.
WebStops ==
    /\ ~Exited
    /\ pc["web"] = "run"
    /\ shutdown.sent
    /\ pc' = [pc EXCEPT !["web"] = "ok"]
    /\ UNCHANGED <<shutdown, chans, exfil, dada, joined, trig_credit>>
    /\ UNCHANGED notControlVars

\* A send on a bounded channel holding n items, capacity cap, whose receiver
\* is gone when closed: [status, chan] with status "closed" (the send
\* returns an error), "full" (the sender waits) or "sent".
BoundedSend(n, cap, closed) ==
    IF closed THEN [status |-> "closed", chan |-> n]
    ELSE IF n >= cap THEN [status |-> "full", chan |-> n]
    ELSE [status |-> "sent", chan |-> n + 1]

\* ---- trigger_task (dumps.rs:115-138)
\* `sender.send(())` (dumps.rs:133) on the trigger channel holding n signals.
TrigSend(n, closed) == BoundedSend(n, TrigChanCap, closed)

\* What trigger_task does with the result of the send (dumps.rs:133): `?`
\* returns the error, a full channel keeps the task in send.
TrigAfterSend(r) ==
    /\ pc' = [pc EXCEPT !["trigger"] =
                 CASE r.status = "closed" -> "err"
                   [] r.status = "full"   -> "send"
                   [] OTHER               -> "select"]
    /\ chans' = [chans EXCEPT !.trig = r.chan]

\* select! takes the shutdown branch (dumps.rs:128-131).
TriggerShutdown ==
    /\ ~Exited
    /\ pc["trigger"] = "select"
    /\ ShutdownSeen("trigger")
    /\ ReturnOnShutdown("trigger")
    /\ UNCHANGED <<chans, exfil, dada, joined, trig_credit>>
    /\ UNCHANGED notControlVars

\* select! takes the datagram branch (dumps.rs:132-134): a datagram has
\* arrived and one signal is sent.  The task runs on main's runtime, that
\* is while main waits in try_join!.
TriggerDatagram ==
    /\ ~Exited
    /\ pc["trigger"] = "select"
    /\ pc["main"] = "try_join"
    /\ TrigAfterSend(TrigSend(chans.trig, Returned("dump")))
    /\ trig_credit' = trig_credit + 1
    /\ UNCHANGED <<shutdown, exfil, dada, joined>>
    /\ UNCHANGED notControlVars

\* The send that found the channel full goes through, or fails, once the
\* dump task has taken a signal or returned.
TriggerSendResumes ==
    /\ ~Exited
    /\ pc["trigger"] = "send"
    /\ LET r == TrigSend(chans.trig, Returned("dump"))
       IN  /\ r.status # "full"
           /\ TrigAfterSend(r)
    /\ UNCHANGED <<shutdown, exfil, dada, joined, trig_credit>>
    /\ UNCHANGED notControlVars

\* ---- dump_task (dumps.rs:140-175)
\* TrigTryRecv that looks at the channel without taking the signal.
TrigTryRecvPeek(n) == [ok |-> n > 0, chan |-> n]

\* `signal_reciever.try_recv().is_ok()` (dumps.rs:155) on the trigger channel
\* holding n signals: [ok, chan].
TrigTryRecv(n) ==
    IF n > 0 THEN [ok |-> TRUE, chan |-> n - 1] ELSE [ok |-> FALSE, chan |-> n]

\* One iteration of dump_task's loop (dumps.rs:150-172) up to the call of
\* ring.dump: return on shutdown; else start a dump if a trigger signal
\* waits; else recv_ref_timeout: push a payload into the ring, or return when
\* the channel is closed and empty.  A timeout on an empty channel changes
\* nothing.  What the push does to the ring is RingPushTask's subject.
DumpIter ==
    /\ ~Exited
    /\ pc["dump"] = "check"
    /\ IF ShutdownSeen("dump")
       THEN /\ ReturnOnShutdown("dump")
            /\ UNCHANGED <<chans, trig_credit>>
       ELSE LET r == TrigTryRecv(chans.trig)
            IN  IF r.ok
                THEN /\ chans' = [chans EXCEPT !.trig = r.chan]
                     /\ pc' = [pc EXCEPT !["dump"] = "dump"]
                     /\ trig_credit' = trig_credit - 1
                     /\ UNCHANGED shutdown
                ELSE /\ chans.dump > 0 \/ Returned("downsample")
                     /\ chans' = [chans EXCEPT
                                     !.dump = IF @ > 0 THEN @ - 1 ELSE @]
                     /\ pc' = [pc EXCEPT !["dump"] =
                                  IF chans.dump > 0 THEN "check" ELSE "ok"]
                     /\ UNCHANGED <<shutdown, trig_credit>>
    /\ UNCHANGED <<exfil, dada, joined>>
    /\ UNCHANGED notControlVars

\* `ring.dump(&start_time, &path)` returns (dumps.rs:157-160): its error is
\* logged and the loop goes on.  What it writes is RingDumpTask's subject.
DumpDone ==
    /\ ~Exited
    /\ pc["dump"] = "dump"
    /\ pc' = [pc EXCEPT !["dump"] = "check"]
    /\ UNCHANGED <<shutdown, chans, exfil, dada, joined, trig_credit>>
    /\ UNCHANGED notControlVars

\* ---- monitor_task (monitoring.rs:95-174)
\* One iteration of the loop (monitoring.rs:101-172): return on shutdown;
\* else recv_ref_timeout: take a Stats record and update the gauges (errors
\* are logged only), or return when the channel is closed and empty.
MonitorIter ==
    /\ ~Exited
    /\ pc["collect"] = "check"
    /\ IF ShutdownSeen("collect")
       THEN /\ ReturnOnShutdown("collect")
            /\ UNCHANGED chans
       ELSE /\ chans.stat > 0 \/ Returned("capture")
            /\ chans' = [chans EXCEPT !.stat = IF @ > 0 THEN @ - 1 ELSE @]
            /\ pc' = [pc EXCEPT !["collect"] =
                         IF chans.stat > 0 THEN "check" ELSE "ok"]
            /\ UNCHANGED shutdown
    /\ UNCHANGED <<exfil, dada, joined, trig_credit>>
    /\ UNCHANGED notControlVars

\* ---- pulse_injection_task (injection.rs:25-128)
\* The top of either loop (injection.rs:64-67, 115-118).
InjectionCheck ==
    /\ ~Exited
    /\ pc["injection"] = "check"
    /\ IF ShutdownSeen("injection")
       THEN ReturnOnShutdown("injection")
       ELSE /\ pc' = [pc EXCEPT !["injection"] = "recv"]
            /\ UNCHANGED shutdown
    /\ UNCHANGED <<chans, exfil, dada, joined, trig_credit>>
    /\ UNCHANGED notControlVars

\* `output.send(payload)` (injection.rs:104, 120) on the injection channel
\* holding n payloads.
InjectionSend(n, closed) == BoundedSend(n, FAST_PATH_CHANNEL_SIZE, closed)

\* Where pulse_injection_task goes with the result of the send: `?` returns
\* the error of a closed channel (injection.rs:104, 120).
InjectionAfterSend(r) ==
    CASE r.status = "closed" -> "err"
      [] r.status = "full"   -> "send"
      [] OTHER               -> "check"

\* `input.recv_timeout(BLOCK_TIMEOUT)` (injection.rs:69-109, 119-124): a
\* payload is received (the pulse added to it or not) and sent on; or the
\* timeout runs out on an empty channel; or the channel is closed and empty.
InjectionRecv ==
    /\ ~Exited
    /\ pc["injection"] = "recv"
    /\ IF chans.capture > 0
       THEN LET r == InjectionSend(chans.inject, Returned("downsample"))
            IN  /\ chans' = [chans EXCEPT !.capture = @ - 1, !.inject = r.chan]
                /\ pc' = [pc EXCEPT !["injection"] = InjectionAfterSend(r)]
       ELSE /\ pc' = [pc EXCEPT !["injection"] =
                         IF Returned("capture") THEN "ok" ELSE "check"]
            /\ UNCHANGED chans
    /\ UNCHANGED <<shutdown, exfil, dada, joined, trig_credit>>
    /\ UNCHANGED notControlVars

\* A payload is received and ends the pulse, and the next pulse file cannot
\* be opened, mapped or read: `?` returns the error (injection.rs:97-101) and
\* the payload is not sent on.
InjectionFault ==
    /\ ~Exited
    /\ pc["injection"] = "recv"
    /\ chans.capture > 0
    /\ chans' = [chans EXCEPT !.capture = @ - 1]
    /\ pc' = [pc EXCEPT !["injection"] = "err"]
    /\ UNCHANGED <<shutdown, exfil, dada, joined, trig_credit>>
    /\ UNCHANGED notControlVars

\* The send that found the channel full (injection.rs:104, 120) goes
\* through, or fails, once downsample has taken a payload or returned.
InjectionSendResumes ==
    /\ ~Exited
    /\ pc["injection"] = "send"
    /\ LET r == InjectionSend(chans.inject, Returned("downsample"))
       IN  /\ r.status # "full"
           /\ chans' = [chans EXCEPT !.inject = r.chan]
           /\ pc' = [pc EXCEPT !["injection"] = InjectionAfterSend(r)]
    /\ UNCHANGED <<shutdown, exfil, dada, joined, trig_credit>>
    /\ UNCHANGED notControlVars

\* ---- the exfil thread (main.rs:156-178, exfil.rs)
\* One iteration of dummy_consumer's or filterbank_consumer's loop
\* (exfil.rs:33-43, 148-172): return on shutdown; else recv_ref_timeout: take
\* a spectrum, or return when the channel is closed and empty.
ExfilIter ==
    /\ ~Exited
    /\ pc["exfil"] = "check"
    /\ exfil.kind \in {"dummy", "filterbank"}
    /\ IF ShutdownSeen("exfil")
       THEN /\ ReturnOnShutdown("exfil")
            /\ UNCHANGED chans
       ELSE /\ chans.ex > 0 \/ Returned("downsample")
            /\ chans' = [chans EXCEPT !.ex = IF @ > 0 THEN @ - 1 ELSE @]
            /\ pc' = [pc EXCEPT !["exfil"] =
                         IF chans.ex > 0 THEN "check" ELSE "ok"]
            /\ UNCHANGED shutdown
    /\ UNCHANGED <<exfil, dada, joined, trig_credit>>
    /\ UNCHANGED notControlVars

\* dada_consumer: `data_writer.next().unwrap()` (exfil.rs:81) waits for a
\* free PSRDADA block, with no timeout.
DadaNextBlock ==
    /\ ~Exited
    /\ pc["exfil"] = "next_block"
    /\ dada.free > 0
    /\ dada' = [dada EXCEPT !.free = @ - 1]
    /\ pc' = [pc EXCEPT !["exfil"] = "check"]
    /\ UNCHANGED <<shutdown, chans, exfil, joined, trig_credit>>
    /\ UNCHANGED notControlVars

\* dada_consumer: the top of the inner loop (exfil.rs:83-86).
DadaCheck ==
    /\ ~Exited
    /\ pc["exfil"] = "check"
    /\ exfil.kind = "dada"
    /\ IF ShutdownSeen("exfil")
       THEN ReturnOnShutdown("exfil")
       ELSE /\ pc' = [pc EXCEPT !["exfil"] = "recv"]
            /\ UNCHANGED shutdown
    /\ UNCHANGED <<chans, exfil, dada, joined, trig_credit>>
    /\ UNCHANGED notControlVars

\* dada_consumer: `stokes_rcv.recv_ref()` (exfil.rs:88-90) waits with no
\* timeout; None, for a channel closed and empty, becomes the error
\* "Channel closed".  A spectrum received is written to the block, and the
\* block is committed once it holds window_size spectra (exfil.rs:109-121).
DadaRecv ==
    /\ ~Exited
    /\ pc["exfil"] = "recv"
    /\ IF chans.ex > 0
       THEN /\ chans' = [chans EXCEPT !.ex = @ - 1]
            /\ IF exfil.stokes_cnt + 1 = DadaWindowSize
               THEN /\ exfil' = [exfil EXCEPT !.stokes_cnt = 0]
                    /\ dada' = [dada EXCEPT !.full = @ + 1]
                    /\ pc' = [pc EXCEPT !["exfil"] = "next_block"]
               ELSE /\ exfil' = [exfil EXCEPT !.stokes_cnt = @ + 1]
                    /\ pc' = [pc EXCEPT !["exfil"] = "check"]
                    /\ UNCHANGED dada
       ELSE /\ Returned("downsample")
            /\ pc' = [pc EXCEPT !["exfil"] = "err"]
            /\ UNCHANGED <<chans, exfil, dada>>
    /\ UNCHANGED <<shutdown, joined, trig_credit>>
    /\ UNCHANGED notControlVars

\* The reader of the PSRDADA buffer, a process of its own, has read a
\* committed block and hands it back.
DadaReaderFrees ==
    /\ ~Exited
    /\ dada.full > 0
    /\ dada' = [free |-> dada.free + 1, full |-> dada.full - 1]
    /\ UNCHANGED <<shutdown, pc, chans, exfil, joined, trig_credit>>
    /\ UNCHANGED notControlVars

\* ---- the capture thread (called at main.rs:179-182)
\* Where a thread that takes a closed channel for the end of the stream goes
\* with the result of a send.
AfterSendQuiet(r) ==
    CASE r.status = "closed" -> "ok"
      [] r.status = "full"   -> "send"
      [] OTHER               -> "check"

\* One iteration of the capture loop: return on shutdown; else a packet
\* read from the socket is sent downstream, the send waiting while the
\* channel is full, and a Stats record is offered to the monitor by try_send.
CaptureIter ==
    /\ ~Exited
    /\ pc["capture"] = "check"
    /\ IF ShutdownSeen("capture")
       THEN /\ ReturnOnShutdown("capture")
            /\ UNCHANGED chans
       ELSE LET r == BoundedSend(chans.capture, FAST_PATH_CHANNEL_SIZE,
                                 Returned("injection"))
            IN  /\ r.status # "sent" \/ r.chan # chans.capture
                /\ chans' = [chans EXCEPT
                                !.capture = r.chan,
                                !.stat = IF r.status = "sent" /\ @ < StatChanCap
                                         THEN @ + 1 ELSE @]
                /\ pc' = [pc EXCEPT !["capture"] = AfterSendQuiet(r)]
                /\ UNCHANGED shutdown
    /\ UNCHANGED <<exfil, dada, joined, trig_credit>>
    /\ UNCHANGED notControlVars

\* The send that found the capture channel full goes through, or ends, once
\* the injection task has taken a payload or returned.
CaptureSendResumes ==
    /\ ~Exited
    /\ pc["capture"] = "send"
    /\ LET r == BoundedSend(chans.capture, FAST_PATH_CHANNEL_SIZE,
                            Returned("injection"))
       IN  /\ r.status # "full"
           /\ chans' = [chans EXCEPT !.capture = r.chan]
           /\ pc' = [pc EXCEPT !["capture"] = AfterSendQuiet(r)]
    /\ UNCHANGED <<shutdown, exfil, dada, joined, trig_credit>>
    /\ UNCHANGED notControlVars

\* ---- the downsample thread (called at main.rs:142-151)
\* One iteration of the downsample loop: return on shutdown; else a payload
\* received is offered to the dump channel by try_send and averaged, and the
\* window it completes (window = TRUE) is sent to the exfil thread, the send
\* waiting while the channel is full; the task returns when its input is
\* closed and empty.
DownsampleIter(window) ==
    /\ ~Exited
    /\ pc["downsample"] = "check"
    /\ IF ShutdownSeen("downsample")
       THEN /\ ~window
            /\ ReturnOnShutdown("downsample")
            /\ UNCHANGED chans
       ELSE IF chans.inject > 0
       THEN LET r == IF window
                     THEN BoundedSend(chans.ex, FAST_PATH_CHANNEL_SIZE,
                                      Returned("exfil"))
                     ELSE [status |-> "sent", chan |-> chans.ex]
            IN  /\ chans' = [chans EXCEPT
                                !.inject = @ - 1,
                                !.dump = IF @ < FAST_PATH_CHANNEL_SIZE
                                         THEN @ + 1 ELSE @,
                                !.ex = r.chan]
                /\ pc' = [pc EXCEPT !["downsample"] = AfterSendQuiet(r)]
                /\ UNCHANGED shutdown
       ELSE /\ ~window
            /\ Returned("injection")
            /\ pc' = [pc EXCEPT !["downsample"] = "ok"]
            /\ UNCHANGED <<shutdown, chans>>
    /\ UNCHANGED <<exfil, dada, joined, trig_credit>>
    /\ UNCHANGED notControlVars

\* The send that found the Stokes channel full goes through, or ends, once
\* the exfil thread has taken a window or returned.
DownsampleSendResumes ==
    /\ ~Exited
    /\ pc["downsample"] = "send"
    /\ LET r == BoundedSend(chans.ex, FAST_PATH_CHANNEL_SIZE, Returned("exfil"))
       IN  /\ r.status # "full"
           /\ chans' = [chans EXCEPT !.ex = r.chan]
           /\ pc' = [pc EXCEPT !["downsample"] = AfterSendQuiet(r)]
    /\ UNCHANGED <<shutdown, exfil, dada, joined, trig_credit>>
    /\ UNCHANGED notControlVars

\* ---- main (main.rs:185-198)
\* `try_join!(web server, trigger_task)?` (main.rs:185-190) ends when both
\* tasks have ended; what trigger_task returned is dropped by `let _`.
MainTryJoin ==
    /\ pc["main"] = "try_join"
    /\ \A t \in Tasks : Returned(t)
    /\ pc' = [pc EXCEPT !["main"] = "join"]
    /\ UNCHANGED <<shutdown, chans, exfil, dada, joined, trig_credit>>
    /\ UNCHANGED notControlVars

\* One turn of `for handle in handles { handle.join().unwrap()?; }`
\* (main.rs:193-195) with n handles joined before it and status what the
\* thread returned: [joined, pc].  `?` returns the error at once; after the
\* last handle main returns Ok(()) (main.rs:197).
MainJoinStep(n, status) ==
    [joined |-> n + 1,
     pc     |-> IF status = "err" THEN "exit_err"
                ELSE IF n + 1 = Len(Threads) THEN "exit_ok" ELSE "join"]

\* main joins the next handle once its thread has returned.
MainJoin ==
    /\ pc["main"] = "join"
    /\ joined < Len(Threads)
    /\ Returned(Threads[joined + 1])
    /\ LET r == MainJoinStep(joined, pc[Threads[joined + 1]])
       IN  /\ joined' = r.joined
           /\ pc' = [pc EXCEPT !["main"] = r.pc]
    /\ UNCHANGED <<shutdown, chans, exfil, dada, trig_credit>>
    /\ UNCHANGED notControlVars

\* The state main leaves when it has spawned every thread and task
\* (main.rs:101-109, 127-189), for the exfil consumer chosen on the command
\* line (main.rs:158-177).
ControlInit(kind) ==
    /\ shutdown = [sent |-> FALSE, pending |-> {}]
    /\ pc = [c \in {Threads[i] : i \in 1..Len(Threads)} \cup Tasks \cup {"main"} |->
                CASE c = "main"    -> "try_join"
                  [] c = "web"     -> "run"
                  [] c = "trigger" -> "select"
                  [] c = "exfil"   -> IF kind = "dada" THEN "next_block"
                                      ELSE "check"
                  [] OTHER         -> "check"]
    /\ chans = [capture |-> 0, inject |-> 0, ex |-> 0, dump |-> 0,
                trig |-> 0, stat |-> 0]
    /\ exfil = [kind |-> kind, stokes_cnt |-> 0]
    /\ dada = [free |-> DadaBlocks, full |-> 0]
    /\ joined = 0
    /\ trig_credit = 0

\* ------------------------------------------------------------------ exfil sinks
\* First channel of the upper edge the sink zeroes (1797 = 2048 - 251 in
\* exfil.rs:107).
HighEdgeFirst == ExfilChannels - 1 - LowEdgeLast

\* `stokes[0..=250].fill(0.0); stokes[1797..=2047].fill(0.0)`
\* (exfil.rs:106-107) on a vector indexed from 1.
ZeroEdges(stokes) ==
    [k \in 1..Len(stokes) |->
        IF k - 1 <= LowEdgeLast \/ k - 1 >= HighEdgeFirst THEN 0 ELSE stokes[k]]

\* What dada_consumer writes to the block for one vector (exfil.rs:105-109).
DadaWrite(stokes) == ZeroEdges(stokes)

\* What filterbank_consumer writes to the file for one vector
\* (exfil.rs:165-166): `fb.pack(&stokes)`, the vector as it was received.
FilterbankWrite(stokes) == stokes

\* The sink takes the vector off the channel and writes it.
SinkWrite ==
    /\ ~sink.done
    /\ sink' = [sink EXCEPT
                   !.written = IF sink.kind = "dada" THEN DadaWrite(sink.stokes)
                               ELSE FilterbankWrite(sink.stokes),
                   !.done = TRUE]
    /\ UNCHANGED notSinkVars

\* The values of a channel of a Stokes vector that reaches the sink.
SinkValues == 0..2

\* A sink of the given kind that has received the vector stokes.
SinkInit(kind, stokes) ==
    sink = [kind |-> kind, stokes |-> stokes, written |-> <<>>, done |-> FALSE]

\* ------------------------------------------------------------------ Payload::from_bytes
\* FPGA UDP word size (capture.rs:23).
WORD_SIZE == 8

\* Total UDP payload size (capture.rs:29).
PAYLOAD_SIZE == SpectraWords * WORD_SIZE + TIMESTAMP_SIZE

\* `b as i8` for a byte b.
AsI8(b) == IF b >= 128 THEN b - 256 ELSE b

\* `x as u8` for an i8 x.
AsU8(x) == (x + 256) % 256

\* u64::from_be_bytes on the bytes of a sequence (capture.rs:52-56).
RECURSIVE FromBeBytes(_)
FromBeBytes(bs) ==
    IF bs = <<>> THEN 0
    ELSE 256 * FromBeBytes(SubSeq(bs, 1, Len(bs) - 1)) + bs[Len(bs)]

\* The big-endian bytes of n on len bytes.
RECURSIVE ToBeBytes(_, _)
ToBeBytes(n, len) ==
    IF len = 0 THEN <<>> ELSE Append(ToBeBytes(n \div 256, len - 1), n % 256)

\* The words of `bytes[TIMESTAMP_SIZE..].chunks_exact(WORD_SIZE)`
\* (capture.rs:42): word i, from 0, as a sequence of 8 bytes.
WordCount(bytes) == (Len(bytes) - TIMESTAMP_SIZE) \div WORD_SIZE

WordOf(bytes, i) ==
    SubSeq(bytes, TIMESTAMP_SIZE + WORD_SIZE * i + 1,
                  TIMESTAMP_SIZE + WORD_SIZE * (i + 1))

\* from_bytes with the word read as [A1 A2 B1 B2].
FromBytesByPol(bytes) ==
    LET chan(k, at) == <<AsI8(WordOf(bytes, k \div 2)[at + 1]),
                         AsI8(WordOf(bytes, k \div 2)[at + 2])>>
    IN  [count |-> FromBeBytes(SubSeq(bytes, 1, TIMESTAMP_SIZE)),
         pol_a |-> [k \in 1..(2 * WordCount(bytes)) |->
                       chan(k - 1, IF (k - 1) % 2 = 0 THEN 0 ELSE 2)],
         pol_b |-> [k \in 1..(2 * WordCount(bytes)) |->
                       chan(k - 1, IF (k - 1) % 2 = 0 THEN 4 ELSE 6)]]

\* Payload::from_bytes (capture.rs:40-58): word i holds [A1 B1 A2 B2], each
\* channel [Re Im]: pol_a[2i] = word[0..2], pol_b[2i] = word[2..4],
\* pol_a[2i+1] = word[4..6], pol_b[2i+1] = word[6..8]; the count is the
\* big-endian number of the first bytes.  Channel k of the model is channel
\* k - 1 of the source.
FromBytes(bytes) ==
    LET chan(k, at) == <<AsI8(WordOf(bytes, k \div 2)[at + 1]),
                         AsI8(WordOf(bytes, k \div 2)[at + 2])>>
    IN  [count |-> FromBeBytes(SubSeq(bytes, 1, TIMESTAMP_SIZE)),
         pol_a |-> [k \in 1..(2 * WordCount(bytes)) |->
                       chan(k - 1, IF (k - 1) % 2 = 0 THEN 0 ELSE 4)],
         pol_b |-> [k \in 1..(2 * WordCount(bytes)) |->
                       chan(k - 1, IF (k - 1) % 2 = 0 THEN 2 ELSE 6)]]

\* The inverse word-pack: the count on TIMESTAMP_SIZE big-endian bytes, then
\* for each pair of channels the word [A1 B1 A2 B2].
RECURSIVE PackWords(_, _)
PackWords(p, i) ==
    IF 2 * i >= Len(p.pol_a) THEN <<>>
    ELSE <<AsU8(p.pol_a[2 * i + 1][1]), AsU8(p.pol_a[2 * i + 1][2]),
           AsU8(p.pol_b[2 * i + 1][1]), AsU8(p.pol_b[2 * i + 1][2]),
           AsU8(p.pol_a[2 * i + 2][1]), AsU8(p.pol_a[2 * i + 2][2]),
           AsU8(p.pol_b[2 * i + 2][1]), AsU8(p.pol_b[2 * i + 2][2])>>
         \o PackWords(p, i + 1)

Encode(p) == ToBeBytes(p.count, TIMESTAMP_SIZE) \o PackWords(p, 0)

\* The datagram is decoded, and the payload packed again.
CodecDecode ==
    /\ ~codec.done
    /\ LET p == FromBytes(codec.bytes)
       IN  codec' = [codec EXCEPT !.payload = p, !.encoded = Encode(p),
                                  !.done = TRUE]
    /\ UNCHANGED notCodecVars

\* Values of a byte of a datagram: the ends of the ranges of u8 and i8.
ByteValues == {0, 1, 127, 128, 255}

\* A datagram whose byte i is i, so that no two bytes are alike.
BasePattern == [i \in 1..PAYLOAD_SIZE |-> i]

\* The datagrams decoded: the pattern with any two bytes replaced.
CodecInputs ==
    {[[BasePattern EXCEPT ![i] = v] EXCEPT ![j] = w] :
        i \in 1..PAYLOAD_SIZE, j \in 1..PAYLOAD_SIZE,
        v \in ByteValues, w \in ByteValues}

\* The datagram bytes has been received and not yet decoded.
CodecInit(bytes) ==
    codec = [bytes |-> bytes, payload |-> PayloadDefault, encoded |-> <<>>,
             done |-> FALSE]

\* ------------------------------------------------------------------ pulse_injection_task
\* The task reads the directory (injection.rs:33-61): a directory that cannot
\* be read gives the pass-through loop (injection.rs:111-126); one that can
\* gives the list of its .dat files, and `pulse_cycle.next().unwrap()`
\* (injection.rs:60) panics when the list is empty.
InjStart ==
    /\ inj.mode = "start"
    /\ inj' = [inj EXCEPT
                  !.mode = IF ~inj.dir.exists THEN "passthrough"
                           ELSE IF inj.dir.pulses = <<>> THEN "panic"
                           ELSE "inject",
                  !.last_injection = inj.now]
    /\ UNCHANGED notInjVars

\* The pulse file after file cur in `pulses.iter().cycle()` (injection.rs:51).
NextPulse(cur) == (cur % Len(inj.dir.pulses)) + 1

\* A payload sent on: its count, the pulse sample added (-1 for none) and
\* the length of the pulse the sample is of.
Forwarded(count, sample, len) == [count |-> count, sample |-> sample, len |-> len]

\* The pulse sample added to a payload when the overlay does not look at
\* currently_injecting.
OverlaidAlways(active, i) == i

\* The pulse sample added to a payload (injection.rs:77-94): sample i while
\* currently_injecting, none (-1) otherwise.
Overlaid(active, i) == IF active THEN i ELSE -1

\* The pass-through loop receives a payload and sends it on
\* (injection.rs:119-120).
InjPassThrough ==
    /\ inj.mode = "passthrough"
    /\ inj.rcvd < MaxInjInputs
    /\ inj' = [inj EXCEPT
                  !.rcvd = @ + 1,
                  !.out = Append(@, Forwarded(inj.rcvd + 1, -1, 0))]
    /\ UNCHANGED notInjVars

\* The injecting loop receives a payload (injection.rs:69-104): when the
\* cadence has elapsed, last_injection is set to the time, currently_injecting
\* is set and i is set to 0 (injection.rs:71-76); while currently_injecting,
\* sample i of the pulse is added and i advanced, and at the end of the pulse
\* currently_injecting is cleared and the next file read (injection.rs:77-103);
\* the payload is sent on (injection.rs:104).
InjInject ==
    /\ inj.mode = "inject"
    /\ inj.rcvd < MaxInjInputs
    /\ LET elapsed == inj.now - inj.last_injection >= inj.cadence
           active  == elapsed \/ inj.currently_injecting
           i0      == IF elapsed THEN 0 ELSE inj.i
           len     == inj.dir.pulses[inj.cur]
           ended   == active /\ i0 + 1 = len
       IN  inj' = [inj EXCEPT
                      !.rcvd = @ + 1,
                      !.last_injection = IF elapsed THEN inj.now ELSE @,
                      !.currently_injecting = active /\ ~ended,
                      !.i = IF active THEN i0 + 1 ELSE i0,
                      !.cur = IF ended THEN NextPulse(@) ELSE @,
                      !.out = Append(@,
                                 Forwarded(inj.rcvd + 1, Overlaid(active, i0),
                                           IF active THEN len ELSE 0))]
    /\ UNCHANGED notInjVars

\* Time passes between two payloads.
InjTick ==
    /\ inj.mode \in {"inject", "passthrough"}
    /\ inj.now < MaxInjTime
    /\ inj' = [inj EXCEPT !.now = @ + 1]
    /\ UNCHANGED notInjVars

\* The pulse directories: missing, or holding the .dat files of the given
\* lengths, none included.
RECURSIVE PulseLists(_)
PulseLists(n) ==
    IF n = 0 THEN {<<>>}
    ELSE PulseLists(n - 1) \cup
         {Append(l, len) : l \in {x \in PulseLists(n - 1) : Len(x) = n - 1},
                           len \in 1..MaxPulseLen}

PulseDirs ==
    {[exists |-> FALSE, pulses |-> <<>>]} \cup
    {[exists |-> TRUE, pulses |-> l] : l \in PulseLists(MaxPulseFiles)}

\* The task as it is spawned (main.rs:127-141), with the locals as they are
\* first set (injection.rs:55-57).
InjInit(dir, cadence) ==
    inj = [dir |-> dir, cadence |-> cadence, mode |-> "start", cur |-> 1,
           i |-> 0, currently_injecting |-> FALSE, last_injection |-> 0,
           now |-> 0, rcvd |-> 0, out |-> <<>>]

\* ------------------------------------------------------------------ FIRST_PACKET
\* Capture reads a packet of count c. The first packet it accepts has its
\* count stored in the atomic before it is forwarded; a later packet is
\* forwarded or not (dropped, or kept in the backlog) by the ordering state
\* machine. The forward waits for room in the channel.
FpCapture(c, forward) ==
    /\ fp.packets < MaxFpPackets
    /\ (forward \/ ~fp.first_seen) => Len(fp.payloads) < FpChanCap
    /\ fp' = [fp EXCEPT
                 !.packets = @ + 1,
                 !.first_seen = TRUE,
                 !.first_count = IF fp.first_seen THEN @ ELSE c,
                 !.FIRST_PACKET = IF fp.first_seen THEN @ ELSE c,
                 !.writes = IF fp.first_seen THEN @ ELSE @ + 1,
                 !.payloads = IF forward \/ ~fp.first_seen
                              THEN Append(@, c) ELSE @]
    /\ UNCHANGED notFpVars

\* The downsampler takes a payload (processing.rs:30) and, at the end of
\* an average, offers the Stokes vector with try_send, which drops it when
\* the channel is full (processing.rs:37, 62); the index advances modulo the
\* factor (processing.rs:67).
FpDownsample ==
    /\ fp.payloads # <<>>
    /\ fp' = [fp EXCEPT
                 !.payloads = Tail(@),
                 !.acc = (@ + 1) % fp.factor,
                 !.windows = IF fp.acc = fp.factor - 1
                             THEN @ \cup {fp.acc + 1} ELSE @,
                 !.stokes = IF fp.acc = fp.factor - 1
                               /\ Len(fp.stokes) < FpChanCap
                            THEN Append(@, Head(fp.payloads)) ELSE @]
    /\ UNCHANGED notFpVars

\* The header of a sink that writes one for every vector it receives.
SinkHeaderEveryVector(f) ==
    [f EXCEPT !.first_payload = FALSE,
              !.reads = Append(@, f.FIRST_PACKET),
              !.headers = Append(@, [first_packet |-> f.FIRST_PACKET,
                                     tsamp_factor |-> f.sink_factor,
                                     data_before  |-> f.data])]

\* `if first_payload { first_payload = false; .. }` (exfil.rs:93-104,
\* 157-164): the sink loads FIRST_PACKET for the start time and writes the
\* header, which carries TSAMP = PACKET_CADENCE * downsample_factor
\* (exfil.rs:67-70, 145): dada_consumer with push_header (exfil.rs:103),
\* filterbank_consumer with header_bytes (exfil.rs:163).
SinkHeader(f) ==
    IF f.first_payload
    THEN [f EXCEPT !.first_payload = FALSE,
                   !.reads = Append(@, f.FIRST_PACKET),
                   !.headers = Append(@, [first_packet |-> f.FIRST_PACKET,
                                          tsamp_factor |-> f.sink_factor,
                                          data_before  |-> f.data])]
    ELSE f

\* What one pass of the sink's loop does with its header when every pass
\* tests first_payload, a Stokes vector received or not.
SinkLoadEveryPass(received) == SinkHeader(fp)

\* What one pass of the sink's loop does with its header: a Stokes vector
\* received makes the sink test first_payload (exfil.rs:93, 157); the dummy
\* consumer has no header (exfil.rs:38-39).
SinkLoad(received) ==
    IF received /\ fp.kind # "dummy" THEN SinkHeader(fp) ELSE fp

\* One pass of the sink's loop: a Stokes vector is received, or the receive
\* times out (exfil.rs:88-90, 154-170).  The vector received is written
\* after the header (exfil.rs:109, 166).
FpSinkPass(received) ==
    /\ received => fp.stokes # <<>>
    /\ ~received => fp.stokes = <<>> /\ fp.kind # "dada"
    /\ fp' = [SinkLoad(received) EXCEPT
                 !.stokes = IF received THEN Tail(@) ELSE @,
                 !.data = IF received /\ fp.kind # "dummy" THEN @ + 1 ELSE @]
    /\ UNCHANGED notFpVars

\* The number of payloads the downsampler averages into a window for the
\* downsample power d of the command line.
DownsampleIters(d) == Pow2(d)

\* The factor handed to the sink as it is TSAMP's.
SinkFactorIsPower(d) == d

\* The factor main hands to the sink: `2usize.pow(cli.downsample_power)`
\* (main.rs:164, 171).
SinkFactor(d) == Pow2(d)

\* The process as it starts, for the downsample power d of the command
\* line: the atomic holds 0 and nothing has been read or written.
FpInit(kind, d) ==
    fp = [kind |-> kind, power |-> d, factor |-> DownsampleIters(d),
          sink_factor |-> SinkFactor(d), FIRST_PACKET |-> 0, writes |-> 0,
          first_seen |-> FALSE, first_count |-> 0, packets |-> 0,
          payloads |-> <<>>, acc |-> 0, windows |-> {}, stokes |-> <<>>,
          first_payload |-> TRUE, reads |-> <<>>, headers |-> <<>>,
          data |-> 0]

\* ------------------------------------------------------------------ dump_task, step by step
\* trigger_task sends a signal (dumps.rs:133).
DtSignalArrives ==
    /\ dtask.pc \notin {"ok", "panic"}
    /\ dtask.signals < MaxDtSignals
    /\ dtask.trig < TrigChanCap
    /\ dtask' = [dtask EXCEPT !.trig = @ + 1, !.signals = @ + 1]
    /\ UNCHANGED <<ringVars, notDumpTaskVars>>

\* The upstream thread offers a payload to the dump channel.
DtPayloadArrives ==
    /\ dtask.pc \notin {"ok", "panic"}
    /\ ~dtask.closed
    /\ dtask.arrived < MaxDtPayloads
    /\ dtask.chan < DtChanCap
    /\ dtask' = [dtask EXCEPT !.chan = @ + 1, !.arrived = @ + 1]
    /\ UNCHANGED <<ringVars, notDumpTaskVars>>

\* The shutdown is broadcast (main.rs:51-62).
DtShutdownArrives ==
    /\ dtask.pc \notin {"ok", "panic"}
    /\ ~dtask.sd
    /\ dtask' = [dtask EXCEPT !.sd = TRUE]
    /\ UNCHANGED <<ringVars, notDumpTaskVars>>

\* The upstream thread returns and the payload channel is closed.
DtInputCloses ==
    /\ dtask.pc \notin {"ok", "panic"}
    /\ ~dtask.closed
    /\ dtask' = [dtask EXCEPT !.closed = TRUE]
    /\ UNCHANGED <<ringVars, notDumpTaskVars>>

\* `if shutdown.try_recv().is_ok() { break }` (dumps.rs:150-153).
DtShutdownCheck ==
    /\ dtask.pc = "shutdown_check"
    /\ dtask' = IF dtask.sd
                THEN [dtask EXCEPT !.pc = "ok", !.sd = FALSE]
                ELSE [dtask EXCEPT !.pc = "trig_check",
                                   !.pending_at_start = dtask.trig > 0]
    /\ UNCHANGED <<ringVars, notDumpTaskVars>>

\* `if signal_reciever.try_recv().is_ok()` (dumps.rs:155): a signal waiting
\* is taken and the ring dumped; else the task receives a payload.
DtTrigCheck ==
    /\ dtask.pc = "trig_check"
    /\ dtask' = IF dtask.trig > 0
                THEN [dtask EXCEPT !.pc = "dump", !.trig = @ - 1,
                                   !.served_after = dtask.waited,
                                   !.waited = 0]
                ELSE [dtask EXCEPT !.pc = "recv"]
    /\ UNCHANGED <<ringVars, notDumpTaskVars>>

\* Where the task goes when recv_ref_timeout returned a payload and it was
\* pushed, without any more payload taken.
DumpAfterRecvDrains == "recv"

\* Where the task goes when recv_ref_timeout returned a payload or timed out
\* (dumps.rs:164-168): to the top of the loop.
DumpAfterRecv == "shutdown_check"

\* The task's record after a receive that completed: the receive counts as
\* one the signal waited for when a signal waits.
DtReceived(pushed) ==
    [dtask EXCEPT
        !.pc = DumpAfterRecv,
        !.waited = IF dtask.trig > 0 THEN @ + 1 ELSE 0,
        !.pushed_past = @ \/ (pushed /\ dtask.pending_at_start),
        !.since_fail = IF pushed /\ @ >= 0 THEN @ + 1 ELSE @]

\* `Ok(pl)` (dumps.rs:164-167): the payload is pushed into the ring; the
\* push panics when the capacity is 1 (dumps.rs:28).
DtPush(p) ==
    /\ dtask.pc = "recv"
    /\ dtask.chan > 0
    /\ ring_status = "run"
    /\ IF RingAdvancePanics(ring)
       THEN /\ ring_status' = "panic"
            /\ dtask' = [dtask EXCEPT !.pc = "panic", !.chan = @ - 1]
            /\ UNCHANGED <<ring, ring_pushed>>
       ELSE LET np == RingNextPush(ring)
            IN  /\ ring' = [np.ring EXCEPT !.container[np.idx] = p]
                /\ ring_pushed' = Append(ring_pushed, p)
                /\ dtask' = [DtReceived(TRUE) EXCEPT !.chan = @ - 1]
                /\ UNCHANGED ring_status
    /\ UNCHANGED <<dump, notDumpTaskVars>>

\* `Err(RecvTimeoutError::Timeout) => continue` (dumps.rs:168).
DtTimeout ==
    /\ dtask.pc = "recv"
    /\ dtask.chan = 0
    /\ ~dtask.closed
    /\ dtask' = DtReceived(FALSE)
    /\ UNCHANGED <<ringVars, notDumpTaskVars>>

\* `Err(RecvTimeoutError::Closed) => break` (dumps.rs:169).
DtClosed ==
    /\ dtask.pc = "recv"
    /\ dtask.chan = 0
    /\ dtask.closed
    /\ dtask' = [dtask EXCEPT !.pc = "ok"]
    /\ UNCHANGED <<ringVars, notDumpTaskVars>>

\* Where the task goes with the result of ring.dump when `?` is applied to
\* it.
DumpResultPropagated(io_ok) == IF io_ok THEN "shutdown_check" ELSE "err"

\* Where the task goes with the result of ring.dump (dumps.rs:157-160): Ok
\* is dropped and Err is logged, and the loop goes on.
DumpResult(io_ok) == "shutdown_check"

\* `ring.dump(&start_time, &path)` (dumps.rs:157): with io_ok = FALSE the
\* dump returns Err before it reads the ring (dumps.rs:46-61); with a
\* capacity of 1 the first advance of read_idx panics (dumps.rs:71).
DtDump(io_ok) ==
    /\ dtask.pc = "dump"
    /\ ring_status = "run"
    /\ IF ~io_ok
       THEN /\ dump' = [done |-> TRUE, ok |-> FALSE,
                        at |-> Len(ring_pushed), records |-> <<>>]
            /\ dtask' = [dtask EXCEPT !.pc = DumpResult(io_ok),
                                      !.since_fail = 0]
            /\ UNCHANGED ring_status
       ELSE IF RingAdvancePanics(ring)
       THEN /\ ring_status' = "dump_panic"
            /\ dtask' = [dtask EXCEPT !.pc = "panic"]
            /\ UNCHANGED dump
       ELSE /\ dump' = [done |-> TRUE, ok |-> TRUE,
                        at |-> Len(ring_pushed),
                        records |-> RingDumpRecords(ring)]
            /\ dtask' = [dtask EXCEPT
                            !.pc = DumpResult(io_ok),
                            !.since_fail = IF @ >= 0 THEN @ + 1 ELSE @]
            /\ UNCHANGED ring_status
    /\ UNCHANGED <<ring, ring_pushed, notDumpTaskVars>>

\* dump_task as it is spawned (main.rs:152-155).
DumpTaskInit ==
    dtask = [pc |-> "shutdown_check", sd |-> FALSE, closed |-> FALSE,
             trig |-> 0, chan |-> 0, arrived |-> 0, signals |-> 0,
             pending_at_start |-> FALSE, pushed_past |-> FALSE, waited |-> 0,
             served_after |-> 0, since_fail |-> -1]

\* ------------------------------------------------------------------ stateful_sort
\* A payload of the sorting stage: its count and its data, 0 for the
\* zero-valued payload.
SortPayload(c, x) == [count |-> c, data |-> x]

\* Payload::default (common.rs:68-77) in that form.
SortDefault == SortPayload(0, 0)

\* PayloadBuf::new (capture.rs:171-177)
PbNew(size) ==
    [map       |-> EmptyMap,
     buf       |-> [i \in 0..(size - 1) |-> SortDefault],
     free_idxs |-> RangeVec(size)]

\* PayloadBuf::remove (capture.rs:178-182): [pb, item]; item is <<>> for
\* None.
PbRemove(b, count) ==
    IF count \notin DOMAIN b.map
    THEN [pb |-> b, item |-> <<>>]
    ELSE LET idx == b.map[count]
         IN  [pb |-> [b EXCEPT !.map = MapRemove(b.map, count),
                               !.free_idxs = Append(b.free_idxs, idx)],
              item |-> <<b.buf[idx]>>]

\* PayloadBuf::insert (capture.rs:183-188): [pb, ok]; ok = FALSE is None.
PbInsert(b, p) ==
    IF b.free_idxs = <<>>
    THEN [pb |-> b, ok |-> FALSE]
    ELSE LET next_idx == b.free_idxs[Len(b.free_idxs)]
         IN  [pb |-> [b EXCEPT
                       !.free_idxs = SubSeq(b.free_idxs, 1, Len(b.free_idxs) - 1),
                       !.map       = MapInsert(b.map, p.count, next_idx),
                       !.buf       = [b.buf EXCEPT ![next_idx] = p]],
              ok |-> TRUE]

\* PayloadBuf::clear (capture.rs:189-192)
PbClear(b) ==
    [b EXCEPT !.map = EmptyMap,
              !.free_idxs = RangeVec(Cardinality(DOMAIN b.buf))]

\* PayloadBuf::len (capture.rs:193-195)
PbLen(b) == Cardinality(DOMAIN b.map)

\* The first loop of stateful_sort (capture.rs:213-230) over the payloads
\* from the k-th on, with st = [drops, to_fill, unsorted, target].
RECURSIVE SortPlace(_, _, _, _)
SortPlace(payloads, k, oldest_count, st) ==
    IF k > Len(payloads) THEN st
    ELSE LET payload == payloads[k]
             next ==
                 IF payload.count < oldest_count
                 THEN [st EXCEPT !.drops = @ + 1]
                 ELSE IF payload.count >= oldest_count + PACKETS_PER_CAPTURE
                 THEN LET r == PbInsert(st.unsorted, payload)
                      IN  [st EXCEPT !.unsorted =
                              IF r.ok THEN r.pb ELSE PbClear(st.unsorted)]
                 ELSE [st EXCEPT
                          !.to_fill = @ \ {payload.count},
                          !.target[payload.count - oldest_count + 1] = payload]
         IN  SortPlace(payloads, k + 1, oldest_count, next)

\* The second loop of stateful_sort (capture.rs:240-244) over the counts
\* still missing.
RECURSIVE SortFill(_, _, _)
SortFill(missing, oldest_count, st) ==
    IF missing = {} THEN st
    ELSE LET missing_count == CHOOSE c \in missing : TRUE
             r == PbRemove(st.unsorted, missing_count)
             next ==
                 IF r.item = <<>> THEN st
                 ELSE [st EXCEPT
                          !.unsorted = r.pb,
                          !.target[r.item[1].count - oldest_count + 1] = r.item[1]]
         IN  SortFill(missing \ {missing_count}, oldest_count, next)

\* stateful_sort (capture.rs:205-248): [dropped, unsorted, target].
StatefulSort(payloads, oldest_count, target, unsorted) ==
    LET placed == SortPlace(payloads, 1, oldest_count,
                            [drops    |-> 0,
                             to_fill  |-> oldest_count..(oldest_count + PACKETS_PER_CAPTURE - 1),
                             unsorted |-> unsorted,
                             target   |-> target])
    IN  IF Cardinality(placed.to_fill) = PACKETS_PER_CAPTURE
        THEN [dropped  |-> PACKETS_PER_CAPTURE + PbLen(placed.unsorted),
              unsorted |-> PbClear(placed.unsorted),
              target   |-> placed.target]
        ELSE LET filled == SortFill(placed.to_fill, oldest_count, placed)
             IN  [dropped  |-> filled.drops,
                  unsorted |-> filled.unsorted,
                  target   |-> filled.target]

\* The chunks Capture hands over: PACKETS_PER_CAPTURE payloads of any
\* counts.
SortChunks ==
    [1..PACKETS_PER_CAPTURE -> {SortPayload(c, 1) : c \in 0..MaxSortCount}]

\* The smallest count of a chunk (capture.rs:293).
MinCount(chunk) ==
    CHOOSE c \in {chunk[k].count : k \in 1..Len(chunk)} :
        \A k \in 1..Len(chunk) : c <= chunk[k].count

\* stateful_sort called on a chunk with a zeroed target, for the base count
\* that follows the chunk before (capture.rs:205, 314).
SortCall(chunk, first) ==
    /\ sorter.calls < MaxSortCalls
    /\ LET oc == IF sorter.oldest_count < 0 THEN first ELSE sorter.oldest_count
           r  == StatefulSort(chunk, oc,
                              [i \in 1..PACKETS_PER_CAPTURE |-> SortDefault],
                              sorter.unsorted)
       IN  sorter' = [oldest_count |-> oc + PACKETS_PER_CAPTURE,
                      unsorted     |-> r.unsorted,
                      calls        |-> sorter.calls + 1,
                      base         |-> oc,
                      out          |-> r.target]
    /\ UNCHANGED notSortVars

\* One iteration of sort_split_task (capture.rs:283-315): oldest_count is
\* the smallest count of the first chunk, the call of stateful_sort is
\* commented out (capture.rs:308) and the chunk is sent as it was decoded
\* (capture.rs:307, 310).
SortSplitIter(chunk) ==
    /\ sorter.calls < MaxSortCalls
    /\ LET oc == IF sorter.oldest_count < 0 THEN MinCount(chunk)
                 ELSE sorter.oldest_count
       IN  sorter' = [sorter EXCEPT
                         !.oldest_count = oc + PACKETS_PER_CAPTURE,
                         !.calls = @ + 1,
                         !.base = oc,
                         !.out = chunk]
    /\ UNCHANGED notSortVars

\* sort_split_task before its first chunk (capture.rs:282), with the
\* backlog as it is built (capture.rs:198-201).
SortInit ==
    sorter = [oldest_count |-> -1, unsorted |-> PbNew(UnsortedSize),
              calls |-> 0, base |-> 0, out |-> <<>>]

\* ------------------------------------------------------------------ specifications
\* The stages a specification does not run stay in their initial state.
\* ------------------------------------------------------------------ pulse overlay (injection.rs:82-94)
\* The largest and the smallest value of an i8 sample (common.rs:17).
I8_MAX == 127
I8_MIN == 0 - I8_MAX - 1

\* f64::round of the value h / 2: to the nearest integer, a half away from
\* zero (injection.rs:86).
RoundHalves(h) == IF h >= 0 THEN (h + 1) \div 2 ELSE 0 - ((1 - h) \div 2)

\* `x as i8` of a rounded f64 x: the value, saturated at the ends of the range
\* (injection.rs:86-87).
F64AsI8(x) == IF x > I8_MAX THEN I8_MAX ELSE IF x < I8_MIN THEN I8_MIN ELSE x

\* (pulse_val * phase.cos()).round() as i8 for a sample on an axis, phase
\* being atan2(im, re): cos is 1 at phase 0, -1 at pi, and so small at
\* +-pi/2 that the product rounds to zero (injection.rs:84-86).
OverlayRe(re, im, h) ==
    F64AsI8(IF im # 0 THEN 0 ELSE IF re >= 0 THEN RoundHalves(h)
                                ELSE 0 - RoundHalves(h))

\* (pulse_val * phase.sin()).round() as i8: sin is 1 at pi/2, -1 at -pi/2,
\* zero at phase 0 and so small at pi that the product rounds to zero
\* (injection.rs:84, 87).
OverlayIm(re, im, h) ==
    F64AsI8(IF im > 0 THEN RoundHalves(h)
         ELSE IF im < 0 THEN 0 - RoundHalves(h) ELSE 0)

\* The i8 `+=` of injection.rs:86-87: the sum when it is in range; out of
\* range a panic in a build with overflow checks and the sum modulo 2^8
\* in a build without.
AddI8(a, b, checks) ==
    IF a + b \in I8_MIN..I8_MAX THEN [panic |-> FALSE, v |-> a + b]
    ELSE IF checks THEN [panic |-> TRUE, v |-> a]
    ELSE [panic |-> FALSE,
          v |-> ((a + b - I8_MIN) % (2 * (I8_MAX + 1))) + I8_MIN]

\* The overlay of one pulse value on one sample (injection.rs:82-88): the
\* phase is taken before either part is changed, re is added to, then im.
OverlaySample(checks) ==
    /\ ov.status = "ready"
    /\ LET r == AddI8(ov.re, OverlayRe(ov.re, ov.im, ov.pulse), checks)
           m == AddI8(ov.im, OverlayIm(ov.re, ov.im, ov.pulse), checks)
       IN  ov' = [ov EXCEPT
                    !.status = IF r.panic \/ m.panic THEN "panicked"
                               ELSE "stored",
                    !.out_re = r.v,
                    !.out_im = IF r.panic THEN ov.im ELSE m.v]
    /\ UNCHANGED notOvVars

\* The samples the overlay is followed over.
MaxOvSamples == 2

\* The next payload's sample at the same channel, with the next pulse value
\* (injection.rs:69-70, 79, 95).
OverlayNext(re, im, h) ==
    /\ ov.status = "stored"
    /\ ov.n < MaxOvSamples
    /\ ov' = [re |-> re, im |-> im, pulse |-> h, status |-> "ready",
              out_re |-> re, out_im |-> im, n |-> ov.n + 1]
    /\ UNCHANGED notOvVars

\* A sample (re, im) of a payload with the pulse value h / 2 to be added.
OvInit(re, im, h) ==
    ov = [re |-> re, im |-> im, pulse |-> h, status |-> "ready",
          out_re |-> re, out_im |-> im, n |-> 1]

OvIdle == OvInit(0, 0, 0)

TailStagesIdle == DumpTaskInit /\ SortInit /\ OvIdle

MidStagesIdle ==
    /\ SinkInit("dada", [k \in 1..ExfilChannels |-> 0])
    /\ CodecInit(BasePattern)
    /\ InjInit([exists |-> FALSE, pulses |-> <<>>], 1)
    /\ FpInit("dummy", 0)

LaterStagesIdle == MidStagesIdle /\ TailStagesIdle

OtherStagesIdle ==
    /\ SplitInit /\ StokesInit(ChannelDefault, ChannelDefault)
    /\ ControlInit("dummy") /\ LaterStagesIdle

\* A stage that a specification does not run stays in one initial state.
RingIdle == RingInit(0)

DsIdle == DownsampleInit(1)

Init == ReorderInit /\ TestInit /\ RingIdle /\ DsIdle /\ OtherStagesIdle

\* The ordering stage: reorder_task fed packets in any arrival order.
Next == \E p \in ReorderInputs : ReorderTask(p)

Spec == Init /\ [][Next]_vars

\* The ReorderBuf driven as its unit test drives it.
NextReorderBuf ==
    \/ \E n \in 1..MaxCount : TestSetNeeded(n)
    \/ \E p \in TestInputs : TestPush(p)
    \/ TestIterNext

SpecReorderBuf == Init /\ [][NextReorderBuf]_vars

\* The DumpRing of any capacity 2^v, pushed into and dumped in any order.
InitRing ==
    /\ ReorderInit /\ TestInit /\ DsIdle /\ OtherStagesIdle
    /\ \E v \in 0..MaxVbufPower : RingInit(v)

NextRing ==
    \/ \E p \in RingInputs : RingPushTask(p)
    \/ \E io_ok \in BOOLEAN : RingDumpTask(io_ok)

SpecRing == InitRing /\ [][NextRing]_vars

\* downsample_task with any factor 2^d, fed payloads while its consumers
\* take averages off the channels at any pace.
InitDownsample ==
    /\ ReorderInit /\ TestInit /\ RingIdle /\ OtherStagesIdle
    /\ \E d \in 0..MaxDownsamplePower : DownsampleInit(Pow2(d))

NextDownsample ==
    \/ \E p \in DownInputs : DownsampleTask(p)
    \/ StokesRecv
    \/ AvgRecv

SpecDownsample == InitDownsample /\ [][NextDownsample]_vars

\* The ordering stage feeding downsample_task: reorder_task receives packets
\* in any arrival order and the downsampler averages what it forwards.
NextPipeline ==
    \/ \E p \in ReorderInputs : ReorderTask(p)
    \/ DownsampleFromReorder
    \/ StokesRecv
    \/ AvgRecv

SpecPipeline == InitDownsample /\ [][NextPipeline]_vars

\* payload_split between its source and the two tasks that take its outputs,
\* each running at any pace.
InitSplit == ReorderInit /\ TestInit /\ RingIdle /\ DsIdle /\ OtherStagesIdle

NextSplit ==
    \/ \E p \in SplitInputs : SplitFeed(p)
    \/ SplitRecv
    \/ SplitSend
    \/ SplitTrySend
    \/ ToDownsampleRecv
    \/ ToDumpsRecv

SpecSplit == InitSplit /\ [][NextSplit]_vars

\* stokes_i called once on any pair of channels, in either kind of build.
InitStokes ==
    /\ ReorderInit /\ TestInit /\ RingIdle /\ DsIdle /\ SplitInit
    /\ ControlInit("dummy") /\ LaterStagesIdle
    /\ \E ach, bch \in I8Samples \X I8Samples : StokesInit(ach, bch)

NextStokes == \E checks \in BOOLEAN : StokesCompute(checks)

SpecStokes == InitStokes /\ [][NextStokes]_vars

\* main with its threads and tasks, for each exfil consumer: packets and
\* trigger datagrams arrive at any time and the shutdown signal at any
\* moment.
InitControl ==
    /\ ReorderInit /\ TestInit /\ RingIdle /\ DsIdle
    /\ SplitInit /\ StokesInit(ChannelDefault, ChannelDefault)
    /\ \E kind \in {"dummy", "dada"} : ControlInit(kind)
    /\ LaterStagesIdle

\* The steps of each thread and task.
TriggerNext == TriggerShutdown \/ TriggerDatagram \/ TriggerSendResumes

DumpNext == DumpIter \/ DumpDone

InjectionNext == InjectionCheck \/ InjectionRecv \/ InjectionSendResumes

ExfilNext == ExfilIter \/ DadaNextBlock \/ DadaCheck \/ DadaRecv

CaptureNext == CaptureIter \/ CaptureSendResumes

DownsampleNext ==
    (\E window \in BOOLEAN : DownsampleIter(window)) \/ DownsampleSendResumes

MainNext == MainTryJoin \/ MainJoin

NextControl ==
    \/ ShutdownSignal
    \/ WebStops
    \/ TriggerNext
    \/ DumpNext
    \/ MonitorIter
    \/ InjectionNext
    \/ ExfilNext
    \/ DadaReaderFrees
    \/ CaptureNext
    \/ DownsampleNext
    \/ MainNext

SpecControl == InitControl /\ [][NextControl]_vars

\* The trigger path with its surroundings: the threads and the trigger task
\* with the dummy consumer, while main waits in try_join!.
InitTrigger ==
    /\ ReorderInit /\ TestInit /\ RingIdle /\ DsIdle
    /\ SplitInit /\ StokesInit(ChannelDefault, ChannelDefault)
    /\ ControlInit("dummy") /\ LaterStagesIdle

NextTrigger ==
    \/ ShutdownSignal
    \/ TriggerNext
    \/ DumpNext
    \/ MonitorIter
    \/ InjectionNext
    \/ ExfilIter
    \/ CaptureNext
    \/ DownsampleNext

SpecTrigger == InitTrigger /\ [][NextTrigger]_vars

\* main with its threads and tasks and the filterbank consumer, where the
\* injection task may fail on a pulse file at any payload.
InitFault ==
    /\ ReorderInit /\ TestInit /\ RingIdle /\ DsIdle
    /\ SplitInit /\ StokesInit(ChannelDefault, ChannelDefault)
    /\ ControlInit("filterbank") /\ LaterStagesIdle

NextFault ==
    \/ ShutdownSignal
    \/ WebStops
    \/ TriggerNext
    \/ DumpNext
    \/ MonitorIter
    \/ InjectionNext
    \/ InjectionFault
    \/ ExfilIter
    \/ CaptureNext
    \/ DownsampleNext
    \/ MainNext

SpecFault == InitFault /\ [][NextFault]_vars

\* The stages before the later ones, idle.
EarlierStagesIdle ==
    /\ ReorderInit /\ TestInit /\ RingIdle /\ DsIdle
    /\ SplitInit /\ StokesInit(ChannelDefault, ChannelDefault)
    /\ ControlInit("dummy")

\* Either writing sink with any Stokes vector.
InitSink ==
    /\ EarlierStagesIdle
    /\ \E kind \in {"dada", "filterbank"} :
       \E stokes \in [1..ExfilChannels -> SinkValues] : SinkInit(kind, stokes)
    /\ CodecInit(BasePattern)
    /\ InjInit([exists |-> FALSE, pulses |-> <<>>], 1)
    /\ FpInit("dummy", 0)
    /\ TailStagesIdle

NextSink == SinkWrite

SpecSink == InitSink /\ [][NextSink]_vars

\* from_bytes applied to any datagram of PAYLOAD_SIZE bytes.
InitCodec ==
    /\ EarlierStagesIdle
    /\ SinkInit("dada", [k \in 1..ExfilChannels |-> 0])
    /\ \E bytes \in CodecInputs : CodecInit(bytes)
    /\ InjInit([exists |-> FALSE, pulses |-> <<>>], 1)
    /\ FpInit("dummy", 0)
    /\ TailStagesIdle

NextCodec == CodecDecode

SpecCodec == InitCodec /\ [][NextCodec]_vars

\* The injection task with any pulse directory and cadence, the payloads
\* arriving at any pace.
InitInject ==
    /\ EarlierStagesIdle
    /\ SinkInit("dada", [k \in 1..ExfilChannels |-> 0])
    /\ CodecInit(BasePattern)
    /\ \E dir \in PulseDirs : \E cadence \in 1..MaxCadence : InjInit(dir, cadence)
    /\ FpInit("dummy", 0)
    /\ TailStagesIdle

NextInject == InjStart \/ InjPassThrough \/ InjInject \/ InjTick

SpecInject == InitInject /\ [][NextInject]_vars

\* Capture, the downsampler and a sink of any kind, for the first-packet
\* count.
InitFirstPacket ==
    /\ EarlierStagesIdle
    /\ SinkInit("dada", [k \in 1..ExfilChannels |-> 0])
    /\ CodecInit(BasePattern)
    /\ InjInit([exists |-> FALSE, pulses |-> <<>>], 1)
    /\ \E kind \in {"dummy", "dada", "filterbank"} :
           \E d \in 0..MaxFpPower : FpInit(kind, d)
    /\ TailStagesIdle

NextFirstPacket ==
    \/ \E c \in 1..MaxFpCount : \E forward \in BOOLEAN : FpCapture(c, forward)
    \/ FpDownsample
    \/ \E received \in BOOLEAN : FpSinkPass(received)

SpecFirstPacket == InitFirstPacket /\ [][NextFirstPacket]_vars

\* dump_task with a ring of any capacity: payloads, trigger signals, the
\* shutdown and the end of the upstream thread come at any moment.
InitDumpTask ==
    /\ ReorderInit /\ TestInit /\ DsIdle
    /\ SplitInit /\ StokesInit(ChannelDefault, ChannelDefault)
    /\ ControlInit("dummy") /\ MidStagesIdle
    /\ \E v \in 0..MaxVbufPower : RingInit(v)
    /\ DumpTaskInit /\ SortInit /\ OvIdle

DumpTaskNext ==
    \/ DtShutdownCheck
    \/ DtTrigCheck
    \/ \E p \in RingInputs : DtPush(p)
    \/ DtTimeout
    \/ DtClosed
    \/ \E io_ok \in BOOLEAN : DtDump(io_ok)

NextDumpTask ==
    \/ DtSignalArrives
    \/ DtPayloadArrives
    \/ DtShutdownArrives
    \/ DtInputCloses
    \/ DumpTaskNext

SpecDumpTask == InitDumpTask /\ [][NextDumpTask]_vars

\* The sorting of capture chunks: stateful_sort called on chunks of any
\* counts, and sort_split_task as it runs.
InitSort ==
    /\ EarlierStagesIdle /\ MidStagesIdle
    /\ DumpTaskInit /\ SortInit /\ OvIdle

NextSort ==
    \/ \E chunk \in SortChunks : \E first \in 0..1 : SortCall(chunk, first)
    \/ \E chunk \in SortChunks : SortSplitIter(chunk)

SpecSort == InitSort /\ [][NextSort]_vars
\* The overlay alone: samples on the axes near the ends and the middle of
\* the i8 range, pulse values in halves up to MaxPulseHalves and two beyond
\* the i8 range.
MaxPulseHalves == 3

OvParts == {I8_MIN, I8_MIN + 1, -1, 0, 1, I8_MAX - 1, I8_MAX}

OvSamples == {s \in OvParts \X OvParts : s[1] = 0 \/ s[2] = 0}

OvPulses == ((0 - MaxPulseHalves)..MaxPulseHalves)
            \cup {0 - 4 * I8_MAX, 4 * I8_MAX}

InitOverlay ==
    /\ EarlierStagesIdle /\ MidStagesIdle
    /\ DumpTaskInit /\ SortInit
    /\ \E s \in OvSamples : \E h \in OvPulses : OvInit(s[1], s[2], h)

NextOverlay ==
    \/ \E checks \in BOOLEAN : OverlaySample(checks)
    \/ \E s \in OvSamples : \E h \in OvPulses : OverlayNext(s[1], s[2], h)

SpecOverlay == InitOverlay /\ [][NextOverlay]_vars


\* ------------------------------------------------------------------ claims: ordering stage
\* The counts of a sequence of payloads.
Counts(seq) == [i \in 1..Len(seq) |-> seq[i].count]

\* The last iteration handled a payload that was not the first one.
Handled == last.branch # "none" /\ ~last.first

\* C1: the counts forwarded downstream are monotonically non-decreasing: no
\* forwarded payload has a count smaller than one forwarded before it, also
\* right after a backlog overflow/reset.
C1_ForwardedNonDecreasing ==
    \A i, j \in 1..Len(sent) : i < j => sent[i].count <= sent[j].count

\* C2: once all arrivals are processed, emitted payloads plus payloads
\* counted as dropped equal the number of arrivals.  reorder_task keeps no
\* drop counter, so nothing is counted as dropped; the claim is stated for
\* the states where no payload waits in the backlog.
C2_EmittedPlusDroppedIsArrivals ==
    DOMAIN rb.queued = {} => Len(sent) + 0 = arrivals

\* C3: a packet whose count is strictly less than the expected count is
\* discarded: it is not forwarded and it is not stored in the backlog.
C3_AnachronismDiscarded ==
    (Handled /\ last.p.count < last.needed) =>
        /\ last.out = <<>>
        /\ last.p.count \notin DOMAIN rb.queued

\* C4: when the incoming count equals next_expected the packet is forwarded,
\* next_expected advances by one, and the maximal prefix of consecutive
\* counts held in the backlog is forwarded after it in ascending order; after
\* handling any packet the backlog does not contain next_expected.
C4_DirectForwardThenDrain ==
    /\ rb.next_needed \notin DOMAIN rb.queued
    /\ (Handled /\ last.p.count = last.needed) =>
        /\ Len(last.out) >= 1
        /\ last.out[1] = last.p
        /\ \A i \in 1..Len(last.out) : last.out[i].count = last.p.count + i - 1
        /\ \A i \in 2..Len(last.out) : last.out[i].count \in last.backlog
        /\ rb.next_needed = last.p.count + Len(last.out)
        /\ DOMAIN rb.queued =
               last.backlog \ {last.out[i].count : i \in 1..Len(last.out)}

\* C4 witness: a packet with the expected count was forwarded and two
\* payloads held in the backlog were forwarded after it.
C4_Witness ==
    /\ Handled
    /\ last.p.count = last.needed
    /\ Len(last.out) >= 3
    /\ Counts(sent) = <<0, 1, 2, 3>>

\* The backlog window B of the claim.  The code has no such constant; the
\* backlog is specified to hold 2 * B payloads, so B is half its capacity.
BACKLOG_BUFFER_PAYLOADS == PACKET_REODER_BUF_SIZE \div 2

\* C6: a packet with count c > next_expected + B is a far-future jump: the
\* backlog is flushed, the packet is forwarded at once and next_expected
\* becomes c + 1; a packet with next_expected < c <= next_expected + B is
\* held in the backlog and not forwarded yet (while the backlog has room,
\* the full backlog being the case of C7).
C6_FarFutureJump ==
    /\ (Handled /\ last.p.count > last.needed + BACKLOG_BUFFER_PAYLOADS) =>
        /\ DOMAIN rb.queued = {}
        /\ last.out = <<last.p>>
        /\ rb.next_needed = last.p.count + 1
    /\ (Handled /\ last.needed < last.p.count
                /\ last.p.count <= last.needed + BACKLOG_BUFFER_PAYLOADS
                /\ last.free > 0) =>
        /\ last.out = <<>>
        /\ last.p.count \in DOMAIN rb.queued

\* C7: the backlog never holds more payloads than its capacity, and an
\* insertion attempted when the backlog is full resets the backlog, forwards
\* the incoming packet and sets next_expected to its count + 1; an insertion
\* that finds a free slot holds the packet back.
C7_BacklogBounded ==
    /\ Cardinality(DOMAIN rb.queued) <= PACKET_REODER_BUF_SIZE
    /\ Cardinality(DOMAIN rb.queued) + Len(rb.free_idxs) <= PACKET_REODER_BUF_SIZE
    /\ (Handled /\ last.p.count # last.needed /\ last.free = 0) =>
        /\ last.out = <<last.p>>
        /\ DOMAIN rb.queued = {}
        /\ Len(rb.free_idxs) = PACKET_REODER_BUF_SIZE
        /\ rb.next_needed = last.p.count + 1
    /\ (Handled /\ last.p.count # last.needed /\ last.free > 0) =>
        /\ last.out = <<>>
        /\ DOMAIN rb.queued = last.backlog \cup {last.p.count}
        /\ rb.next_needed = last.needed

\* C7 witness: a payload arrived while every slot of the backlog was taken by
\* a distinct count, and the overflow policy ran.
C7_Witness ==
    /\ Handled
    /\ last.branch = "overflow"
    /\ Cardinality(last.backlog) = PACKET_REODER_BUF_SIZE

\* ------------------------------------------------------------------ claims: ReorderBuf
\* The counts pushed by the harness.
PushedCounts == {t_pushed[i].count : i \in 1..Len(t_pushed)}

\* The payload pushed with count c.
PushedWith(c) == CHOOSE p \in {t_pushed[i] : i \in 1..Len(t_pushed)} : p.count = c

\* The first count from L on that was not pushed.
FirstAbsent(L) ==
    CHOOSE k \in L..(L + Len(t_pushed)) :
        /\ k \notin PushedCounts
        /\ \A j \in L..(k - 1) : j \in PushedCounts

\* C5: distinct counts, no more than the buffer holds, pushed in any order
\* with next_needed = L: iterating yields the payloads with counts L, L+1, ...
\* in ascending order, each once, and stops at the first absent count K with
\* next_needed = K; when the counts pushed are exactly L..H the buffer is left
\* empty with next_needed = H + 1.
C5_IterateAscending ==
    (/\ t_phase = "done"
     /\ Cardinality(PushedCounts) = Len(t_pushed)
     /\ Len(t_pushed) <= PACKET_REODER_BUF_SIZE) =>
        LET K == FirstAbsent(t_start)
        IN  /\ t_yielded = [i \in 1..(K - t_start) |-> PushedWith(t_start + i - 1)]
            /\ rb.next_needed = K
            /\ PushedCounts = t_start..(K - 1) =>
                   /\ DOMAIN rb.queued = {}
                   /\ Len(rb.free_idxs) = PACKET_REODER_BUF_SIZE
                   /\ {rb.free_idxs[i] : i \in 1..Len(rb.free_idxs)}
                          = 0..(PACKET_REODER_BUF_SIZE - 1)

\* C5 witness: counts 3, 2, 1 pushed in descending order with next_needed = 1
\* and iterated to the end, yielding 1, 2, 3.
C5_Witness ==
    /\ t_phase = "done"
    /\ Counts(t_pushed) = <<3, 2, 1>>
    /\ t_start = 1
    /\ Counts(t_yielded) = <<1, 2, 3>>

\* ------------------------------------------------------------------ claims: DumpRing
\* The payload p as a record of a dump.
AsRecord(p) == [count |-> p.count, pol_a |-> p.pol_a, pol_b |-> p.pol_b]

\* C8: a dump taken after M >= N pushes into a DumpRing of capacity N emits
\* exactly N records, the last N pushed payloads in push order (N = 4 and
\* counts 10..15 pushed give the records 12, 13, 14, 15).
C8_DumpIsLastNPushed ==
    (dump.done /\ dump.ok /\ dump.at >= ring.capacity) =>
        /\ Len(dump.records) = ring.capacity
        /\ \A i \in 1..ring.capacity :
               dump.records[i] =
                   AsRecord(ring_pushed[dump.at - ring.capacity + i])

\* C9: a dump taken after M < N pushes into a fresh DumpRing of capacity N
\* emits N records: N - M zero-valued payloads, then the M pushed payloads in
\* push order.
C9_DumpOfPartlyFilledRing ==
    (dump.done /\ dump.ok /\ dump.at < ring.capacity) =>
        /\ Len(dump.records) = ring.capacity
        /\ \A i \in 1..(ring.capacity - dump.at) :
               dump.records[i] = AsRecord(PayloadDefault)
        /\ \A i \in 1..dump.at :
               dump.records[ring.capacity - dump.at + i] =
                   AsRecord(ring_pushed[i])

\* ------------------------------------------------------------------ claims: downsample_task
\* The sum of Stokes-I of channel k over the inputs lo..hi.
RECURSIVE StokesSum(_, _, _)
StokesSum(lo, hi, k) ==
    IF hi < lo THEN FracZero
    ELSE FracAdd(StokesSum(lo, hi - 1, k), PayloadStokesI(ds_in[hi])[k])

\* C10: with factor D, after n payloads the downsampler has produced
\* floor(n/D) windows; window j is the element-wise mean of Stokes-I over
\* the inputs j*D .. (j+1)*D - 1 and no others; the accumulator holds the sum
\* over the inputs of the unfinished window only, so that it and the counter
\* are zero at the start of every window.
C10_WindowsAreDisjointMeans ==
    LET D == downsample_factor
        n == Len(ds_in)
    IN  /\ Len(ds_windows) = n \div D
        /\ \A j \in 0..(Len(ds_windows) - 1) : \A k \in 1..CHANNELS :
               FracEq(ds_windows[j + 1][k],
                      FracDiv(StokesSum(j * D + 1, (j + 1) * D, k), D))
        /\ ds.stokes_idx = n % D
        /\ \A k \in 1..CHANNELS :
               FracEq(ds.stokes_avg[k], StokesSum(n - (n % D) + 1, n, k))
        /\ (n % D = 0) => \A k \in 1..CHANNELS : ds.stokes_avg[k].num = 0

\* C10 witness: with D = 2 and five payloads received, two windows with
\* different, non-zero means have been produced and a third is under way.
C10_Witness ==
    /\ downsample_factor = 2
    /\ Len(ds_in) = 5
    /\ Len(ds_windows) = 2
    /\ ds_windows[1][1].num > 0
    /\ ~FracEq(ds_windows[1][1], ds_windows[2][1])
    /\ ~FracEq(ds_windows[1][1], ds_windows[1][2])
    /\ ds.stokes_idx = 1

\* The payloads averaged into window j (from 1) of the downsampler.
WindowCounts(j) ==
    [i \in 1..downsample_factor |->
        ds_in[(j - 1) * downsample_factor + i].count]

\* C11: every emitted downsample window covers exactly D = 2^d consecutive
\* packet counts with no skip: the payloads averaged into one window have
\* counts c, c+1, ..., c+D-1, also when the ordering stage upstream has dropped
\* packets or jumped ahead.
C11_WindowCoversConsecutiveCounts ==
    \A j \in 1..Len(ds_windows) : \A i \in 1..downsample_factor :
        WindowCounts(j)[i] = WindowCounts(j)[1] + i - 1

\* C12: every completed window is delivered to the exfil sink exactly once and
\* in order, and none is discarded when the Stokes channel is full: the
\* windows the sink has received followed by those waiting in the channel are
\* the windows completed so far.
C12_WindowsDeliveredWithBackpressure ==
    stokes_rcvd \o stokes_chan = ds_windows

\* ------------------------------------------------------------------ claims: payload_split
\* The sequence s without its last n elements.
DropLast(s, n) == SubSeq(s, 1, Len(s) - n)

\* s is an order-preserving subsequence of t: some strictly increasing
\* choice of positions of t spells s.
IsSubsequence(s, t) ==
    \E f \in [1..Len(s) -> 1..Len(t)] :
        /\ \A i \in 1..Len(s) : s[i] = t[f[i]]
        /\ \A i, j \in 1..Len(s) : i < j => f[i] < f[j]

\* C13: the splitter sends every payload it receives to the downsample
\* channel exactly once and in receive order, waiting while that channel is
\* full; it offers the same payload to the dump channel without waiting: the
\* dump channel carries an order-preserving subsequence of the payloads
\* received, and a full dump channel never holds the splitter up.
C13_SplitterDuplicates ==
    /\ split_log.down \o to_downsample =
           DropLast(split_log.rcvd, IF split.pc = "send" THEN 1 ELSE 0)
    /\ split.pc = "send" => split.x = split_log.rcvd[Len(split_log.rcvd)]
    /\ IsSubsequence(split_log.dumps \o to_dumps,
                     DropLast(split_log.rcvd,
                              IF split.pc = "recv" THEN 0 ELSE 1))
    /\ Len(to_downsample) <= ToDownsampleCap
    /\ Len(to_dumps) <= ToDumpsCap
    /\ split.pc = "try_send" => ENABLED SplitTrySend

\* C13 witness: every payload fed has gone through the downsample channel,
\* which was full on the way, while the dump channel, never emptied, kept its
\* first payload only and the splitter went on.
C13_Witness ==
    /\ Len(split_log.rcvd) = MaxSplitInputs
    /\ split_log.down = split_log.rcvd
    /\ split_log.dumps = <<>>
    /\ to_dumps = <<split_log.rcvd[1]>>
    /\ split.pc = "recv"

\* ------------------------------------------------------------------ claims: stokes_i
\* |x|^2 of a channel as a whole number.
MagnitudeSquared(ch) == ch[1] * ch[1] + ch[2] * ch[2]

\* |A|^2 + |B|^2 of channel k of the arguments as a whole number.
PowerSum(k) ==
    MagnitudeSquared(stokes_in.pol_a[k]) + MagnitudeSquared(stokes_in.pol_b[k])

\* The fraction f is n / 16384: f.num * 16384 = n * f.den, written with a
\* division so that no product exceeds 2^31.
FracIsOver16384(f, n) ==
    /\ (f.num * 16384) % f.den = 0
    /\ (f.num * 16384) \div f.den = n

\* C14: for every pair of polarization channels Stokes-I is
\* (|A|^2 + |B|^2) / 2^14, the sum of the two squared magnitudes divided by
\* exactly 16384.  The channels whose integer sum overflows are the case of
\* C15 and are left out here.
C14_StokesIsPowerOver16384 ==
    stokes_out.status = "ok" =>
        \A k \in 1..CHANNELS :
            PowerSum(k) <= U16_MAX =>
                FracIsOver16384(stokes_out.value[k], PowerSum(k))

\* C15: for every value of the four signed 8-bit components, -128 included,
\* the integer arithmetic of Stokes-I does not overflow: the call returns and
\* the integer sum it divides is |A|^2 + |B|^2 itself, not that sum modulo
\* 2^16.
C15_StokesIntegerSumExact ==
    stokes_out.status # "none" =>
        /\ stokes_out.status = "ok"
        /\ \A k \in 1..CHANNELS : stokes_out.value[k].num = PowerSum(k)

\* ------------------------------------------------------------------ trigger
\* Signals that trigger_task has in hand: the one its waiting send holds.
TrigInFlight == IF pc["trigger"] = "send" THEN 1 ELSE 0

\* C16: every datagram produces exactly one signal: the datagrams not yet
\* answered by a dump are the signals in the trigger channel, with the one
\* of a send that waits, and the channel never holds more than its capacity.
C16_EveryDatagramOneSignal ==
    /\ chans.trig <= TrigChanCap
    /\ trig_credit = chans.trig + TrigInFlight

\* A step of dump_task that starts a dump.
DumpStarts == pc["dump"] # "dump" /\ pc'["dump"] = "dump"

Components ==
    {"capture", "injection", "downsample", "dump", "exfil", "collect", "trigger"}

\* The steps the components take of themselves: every step but the arrival
\* of a signal or of a datagram and the PSRDADA reader's.
ComponentNext ==
    \/ TriggerShutdown \/ TriggerSendResumes
    \/ DumpNext
    \/ MonitorIter
    \/ InjectionNext
    \/ ExfilNext
    \/ CaptureNext
    \/ DownsampleNext

\* C18: after the shutdown broadcast no component stays blocked: when the
\* process runs and no component can take a step any more, every component
\* has returned.
C18_NoComponentBlockedForever ==
    (shutdown.sent /\ ~Exited /\ ~ENABLED ComponentNext) =>
        \A c \in Components : Returned(c)

\* C19: a shutdown without a fault ends well in every order of observation:
\* no component returns an error and main does not return one.
C19_GracefulShutdownSucceeds ==
    /\ \A c \in Components : pc[c] # "err"
    /\ pc["main"] # "exit_err"

\* C20: main has not returned before every thread it spawned has returned
\* and been joined.
C20_ExitAfterAllJoined ==
    Exited =>
        /\ joined = Len(Threads)
        /\ \A i \in 1..Len(Threads) : Returned(Threads[i])

\* ------------------------------------------------------------------ claims: DumpRing index
\* C29: in a DumpRing of capacity N = 2^v, v >= 0, no push fails, write_index
\* stays in [0, N) and is the number of pushes modulo N, and the payload
\* pushed last sits in the slot before it, so that successive pushes go
\* round all N slots.
C29_PushAdvancesModuloCapacity ==
    /\ ring_status = "run"
    /\ ring.write_index \in 0..(ring.capacity - 1)
    /\ ring.write_index = Len(ring_pushed) % ring.capacity
    /\ Len(ring_pushed) > 0 =>
           ring.container[(Len(ring_pushed) - 1) % ring.capacity] =
               ring_pushed[Len(ring_pushed)]

\* C30: a dump ends without a panic and leaves the ring as it found it, with
\* no push applied meanwhile, and a dump that wrote its records read each slot
\* it went through once.
C30_DumpLeavesRingUnchanged ==
    [][(\E io_ok \in BOOLEAN : RingDumpTask(io_ok)) =>
          /\ ring_status' = "run"
          /\ ring' = ring
          /\ ring_pushed' = ring_pushed
          /\ dump'.ok => Len(dump'.records) <= ring.capacity]_vars

\* ------------------------------------------------------------------ claims: exfil sinks
\* C28: a Stokes vector written by a sink has its edge channels (0..=250 and
\* 1797..=2047 of 2048) at zero and every other channel as received.
C28_EdgeChannelsZeroed ==
    sink.done =>
        \A k \in 1..ExfilChannels :
            sink.written[k] =
                IF k - 1 <= LowEdgeLast \/ k - 1 >= HighEdgeFirst
                THEN 0 ELSE sink.stokes[k]

\* ------------------------------------------------------------------ claims: Payload::from_bytes
\* C27: a datagram of PAYLOAD_SIZE bytes decodes to the count of its first
\* bytes, big-endian, and for each word w to pol_a[2w] = (b0, b1),
\* pol_b[2w] = (b2, b3), pol_a[2w+1] = (b4, b5), pol_b[2w+1] = (b6, b7), and
\* packing the payload again gives the datagram back byte for byte; decode is
\* then injective.
C27_DecodeEncodeRoundTrip ==
    codec.done =>
        /\ codec.encoded = codec.bytes
        /\ codec.payload.count = FromBeBytes(SubSeq(codec.bytes, 1, TIMESTAMP_SIZE))
        /\ \A w \in 0..(SpectraWords - 1) :
               LET b == WordOf(codec.bytes, w)
               IN  /\ codec.payload.pol_a[2 * w + 1] = <<AsI8(b[1]), AsI8(b[2])>>
                   /\ codec.payload.pol_b[2 * w + 1] = <<AsI8(b[3]), AsI8(b[4])>>
                   /\ codec.payload.pol_a[2 * w + 2] = <<AsI8(b[5]), AsI8(b[6])>>
                   /\ codec.payload.pol_b[2 * w + 2] = <<AsI8(b[7]), AsI8(b[8])>>

\* A datagram with a count of more than one byte and a negative sample has
\* been decoded.
C27_Witness ==
    /\ codec.done
    /\ codec.payload.count > 255
    /\ codec.payload.pol_b[1][1] = -1

\* ------------------------------------------------------------------ claims: pulse injection
\* C23: with the pulse directory missing, or holding no .dat file, the task
\* does not panic and sends every payload on as it came, once and in order.
C23_NoPulsePassThrough ==
    (~inj.dir.exists \/ inj.dir.pulses = <<>>) =>
        /\ inj.mode # "panic"
        /\ inj.mode # "start" =>
               inj.out = [k \in 1..inj.rcvd |-> Forwarded(k, -1, 0)]

\* C24: a pulse of length L is added to L consecutive payloads, samples
\* 0, 1, ..., L - 1 in that order, and the payloads after it pass as they
\* came: a sample is below L, follows the sample before it, and a pulse
\* begins or ends only where the one before it is complete.
C24_PulsePlayedInOrder ==
    \A k \in 1..Len(inj.out) :
        LET e == inj.out[k]
        IN  /\ e.sample >= 0 => e.sample < e.len
            /\ e.sample > 0 => k > 1 /\ inj.out[k - 1].sample = e.sample - 1
            /\ (k > 1 /\ e.sample <= 0 /\ inj.out[k - 1].sample >= 0) =>
                   inj.out[k - 1].sample = inj.out[k - 1].len - 1

\* C25: while an injection is active a payload advances sample_i by one and
\* leaves last_injection alone: the cadence starts no injection then.
C25_NoRestartWhileActive ==
    [][(inj.currently_injecting /\ inj'.rcvd # inj.rcvd) =>
          /\ inj'.i = inj.i + 1
          /\ inj'.last_injection = inj.last_injection]_vars

\* ------------------------------------------------------------------ claims: first-packet count
\* C26: FIRST_PACKET is stored at most once, with the count of the first
\* packet Capture accepted, and every load by a sink comes after the store
\* and returns that count.
C26_FirstPacketWrittenOnceBeforeRead ==
    /\ fp.writes <= 1
    /\ fp.writes = 1 => fp.first_seen /\ fp.FIRST_PACKET = fp.first_count
    /\ \A k \in 1..Len(fp.reads) :
           fp.writes = 1 /\ fp.reads[k] = fp.first_count

\* A sink has loaded the count after Capture accepted more packets.
C26_Witness ==
    /\ fp.reads # <<>>
    /\ fp.packets > 1
    /\ fp.kind \in {"dada", "filterbank"}

\* ------------------------------------------------------------------ claims: fatal errors
\* C21: a component that ends with an error has the shutdown broadcast and
\* every component returns: when a component has returned an error, the
\* process runs and no component can take a step any more, the shutdown was
\* broadcast and every component has returned.
C21_FatalErrorShutsDown ==
    ((\E c \in Components : pc[c] = "err") /\ ~Exited
        /\ ~ENABLED ComponentNext) =>
        /\ shutdown.sent
        /\ \A c \in Components : Returned(c)

\* The threads that receive from a channel with recv_timeout and whose code
\* is under src/.
ClosedInputReturns == {"dump", "injection", "exfil", "collect"}

\* C22: a thread whose input channel was closed with no shutdown signalled
\* does not return success: with no shutdown broadcast, none of these threads
\* has returned Ok(()).
C22_ClosedInputIsFatal ==
    ~shutdown.sent => \A c \in ClosedInputReturns : pc[c] # "ok"

\* ------------------------------------------------------------------ claims: dump_task
\* C31: the dump takes priority: no payload is pushed in an iteration that
\* began with a signal waiting, a signal waits for at most one receive (a
\* push or a timeout) before the dump begins, and the task with a signal
\* waiting can always take its next step.
C31_DumpTakesPriority ==
    /\ ~dtask.pushed_past
    /\ dtask.waited <= 1
    /\ dtask.served_after <= 1
    /\ (dtask.trig > 0 /\ dtask.pc \notin {"ok", "panic"}) =>
           ENABLED DumpTaskNext

\* A dump begins for a signal that came while the task was receiving, after
\* the one payload it received was pushed.
C31_Witness ==
    /\ dtask.pc = "dump"
    /\ dtask.served_after = 1
    /\ Len(ring_pushed) > 0

\* C36: a dump that returns an error leaves the ring as it was and the task
\* in its loop, where it takes payloads and signals as before.
C36_DumpErrorIsSurvived ==
    [][DtDump(FALSE) =>
          /\ ring' = ring
          /\ ring_pushed' = ring_pushed
          /\ ring_status' = ring_status
          /\ dtask'.pc = "shutdown_check"
          /\ dtask'.trig = dtask.trig /\ dtask'.chan = dtask.chan]_vars

\* After a failed dump the task has pushed a payload and dumped the ring.
C36_Witness ==
    /\ dtask.since_fail >= 2
    /\ dump.done /\ dump.ok
    /\ dump.at > 0

\* ------------------------------------------------------------------ claims: sink header
\* C33: a writing sink writes its header once, when the first Stokes vector
\* is received and before any vector is written: no header without a vector
\* received, one header with the first, none after it.
C33_HeaderWrittenOnce ==
    fp.kind \in {"dada", "filterbank"} =>
        /\ Len(fp.headers) = IF fp.data > 0 THEN 1 ELSE 0
        /\ \A k \in 1..Len(fp.headers) : fp.headers[k].data_before = 0

\* A sink has written more than one vector after its header.
C33_Witness ==
    /\ fp.kind \in {"dada", "filterbank"}
    /\ Len(fp.headers) = 1
    /\ fp.data > 1

RbFreeSlots == {rb.free_idxs[k] : k \in 1..Len(rb.free_idxs)}

RbQueuedSlots == {rb.queued[c] : c \in DOMAIN rb.queued}

\* C38: the free slots and the queued slots are disjoint and make up all
\* the slots, no slot is twice on the free list and no two counts share a
\* slot.
C38_SlotsPartitioned ==
    /\ RbFreeSlots \cap RbQueuedSlots = {}
    /\ RbFreeSlots \cup RbQueuedSlots = 0..(PACKET_REODER_BUF_SIZE - 1)
    /\ Cardinality(RbFreeSlots) = Len(rb.free_idxs)
    /\ Cardinality(RbQueuedSlots) = Cardinality(DOMAIN rb.queued)

\* ------------------------------------------------------------------ claims: sorted chunks
\* C35: slot i of a sorted chunk holds a payload of count oldest_count + i.
C35_SlotHoldsItsCount ==
    sorter.calls > 0 =>
        \A i \in 1..PACKETS_PER_CAPTURE :
            sorter.out[i].count = sorter.base + i - 1

C39_OverlayStaysInRange ==
    ov.status # "ready" =>
        /\ ov.status = "stored"
        /\ ov.out_re = ov.re + OverlayRe(ov.re, ov.im, ov.pulse)
        /\ ov.out_im = ov.im + OverlayIm(ov.re, ov.im, ov.pulse)
        /\ ov.out_re \in I8_MIN..I8_MAX
        /\ ov.out_im \in I8_MIN..I8_MAX

\* ------------------------------------------------------------------ claims: no deadlock
\* A payload or a window waits in a channel.
ItemAvailable ==
    chans.capture > 0 \/ chans.inject > 0 \/ chans.ex > 0 \/ chans.dump > 0

\* The steps of the data path: the threads' own and the PSRDADA reader's.
PipelineNext ==
    \/ DumpNext
    \/ InjectionNext
    \/ ExfilNext
    \/ DadaReaderFrees
    \/ CaptureNext
    \/ DownsampleNext

\* Without a shutdown, while an item waits in a channel some thread of the
\* data path can take a step.
NoPipelineDeadlock ==
    (~shutdown.sent /\ ~Exited /\ ItemAvailable) => ENABLED PipelineNext

\* The trigger listener waiting in its send on the full trigger channel
\* does not keep a termination signal from being broadcast.
BlockedTriggerLeavesSignalFree ==
    (~shutdown.sent /\ pc["main"] = "try_join" /\ pc["trigger"] = "send")
        => ENABLED ShutdownSignal

\* C37: without a shutdown the pipeline does not deadlock: in no state does
\* a payload or window wait while every thread is blocked on a channel; and
\* while the trigger listener is blocked the shutdown signal can still be
\* broadcast.
C37_NoDeadlockSignalNotBlocked ==
    /\ NoPipelineDeadlock
    /\ BlockedTriggerLeavesSignalFree
====
